---- MODULE Spec2Model ----
(***************************************************************************)
(* A model of tiny-callAI (src/callAI-tiny.js): the callAI entry point as  *)
(* a state machine over its await points, the one-time custom-model        *)
(* loader, the capability tables, the provider adapters, the usage         *)
(* normalizer and the cost arithmetic.                                     *)
(*                                                                         *)
(* Conventions.  A JavaScript `undefined` number is the integer            *)
(* `undefined` (-1); every number the program handles here is >= 0.        *)
(* Temperatures are in tenths (0.7 is 7), per-million rates in thousandths *)
(* of a dollar (0.15 is 150), costs in millionths of a dollar (6 decimal   *)
(* places).  An error message is a sequence of text pieces: a constant     *)
(* piece of the source's template (which holds no digit) is one element,   *)
(* and every interpolated number is spelled one digit per element, also   *)
(* inside upstream text, so that String.prototype.includes is a real       *)
(* subsequence search.                                                     *)
(***************************************************************************)
EXTENDS Integers, Sequences, FiniteSets, TLC

(* ------------------------------ bounds --------------------------------- *)
\* number of callAI invocations a behaviour of Spec makes, one after another
MaxCalls == 2
\* number of callAI invocations in flight together in SpecConc
NumCalls == 2

(* ------------------------- JavaScript values --------------------------- *)
undefined == -1

Providers == {"openai", "anthropic", "mistral", "grok", "gemini", "together"}

\* Object.entries(AI_PROVIDERS) enumerates in insertion order
ProviderOrder == <<"openai", "anthropic", "mistral", "grok", "gemini", "together">>

ModelEntry(name, cin, cout) == [name |-> name, cost |-> [in |-> cin, out |-> cout]]

\* _DEFAULT
DefaultTemperature == 7
DefaultMaxTokens == 4096
DefaultModel == "mistral-small"
DefaultTimeout == 480000

(* --------------------- built-in model tables --------------------------- *)
OpenaiModels ==
  "4o-mini" :> ModelEntry("gpt-4o-mini", 150, 600)
  @@ "gpt-4om" :> ModelEntry("gpt-4o-mini", 150, 600)
  @@ "4.1" :> ModelEntry("gpt-4.1", 2000, 8000)
  @@ "gpt-4.1" :> ModelEntry("gpt-4.1", 2000, 8000)
  @@ "4.1-mini" :> ModelEntry("gpt-4.1-mini", 400, 1600)
  @@ "gpt-4.1m" :> ModelEntry("gpt-4.1-mini", 400, 1600)
  @@ "4.1-nano" :> ModelEntry("gpt-4.1-nano", 100, 400)
  @@ "gpt-4.1n" :> ModelEntry("gpt-4.1-nano", 100, 400)
  @@ "5.0" :> ModelEntry("gpt-5", 1250, 10000)
  @@ "gpt-5" :> ModelEntry("gpt-5", 1250, 10000)
  @@ "5.0-mini" :> ModelEntry("gpt-5-mini", 250, 2000)
  @@ "gpt-5m" :> ModelEntry("gpt-5-mini", 250, 2000)
  @@ "5.0-nano" :> ModelEntry("gpt-5-nano", 50, 400)
  @@ "gpt-5n" :> ModelEntry("gpt-5-nano", 50, 400)
  @@ "o3-mini" :> ModelEntry("o3-mini", 1100, 4400)
  @@ "gpt-o3m" :> ModelEntry("o3-mini", 1100, 4400)
  @@ "o4-mini" :> ModelEntry("o4-mini", 1100, 4400)
  @@ "gpt-o4m" :> ModelEntry("o4-mini", 1100, 4400)

AnthropicModels ==
  "4.1-opus" :> ModelEntry("claude-opus-4-1-20250805", 15000, 75000)
  @@ "claude-4.1o" :> ModelEntry("claude-opus-4-1-20250805", 15000, 75000)
  @@ "4-opus" :> ModelEntry("claude-opus-4-20250514", 15000, 75000)
  @@ "claude-4o" :> ModelEntry("claude-opus-4-20250514", 15000, 75000)
  @@ "4-sonnet" :> ModelEntry("claude-sonnet-4-20250514", 3000, 15000)
  @@ "claude-4s" :> ModelEntry("claude-sonnet-4-20250514", 3000, 15000)
  @@ "3.7-sonnet" :> ModelEntry("claude-3-7-sonnet-20250219", 3000, 15000)
  @@ "claude-3.7s" :> ModelEntry("claude-3-7-sonnet-20250219", 3000, 15000)
  @@ "3.5-sonnet" :> ModelEntry("claude-3-5-sonnet-20241022", 3000, 15000)
  @@ "claude-3.5s" :> ModelEntry("claude-3-5-sonnet-20241022", 3000, 15000)
  @@ "3.5-haiku" :> ModelEntry("claude-3-5-haiku-20241022", 800, 4000)
  @@ "claude-3.5h" :> ModelEntry("claude-3-5-haiku-20241022", 800, 4000)
  @@ "3-haiku" :> ModelEntry("claude-3-haiku-20240307", 400, 1600)
  @@ "claude-3h" :> ModelEntry("claude-3-haiku-20240307", 400, 1600)

MistralModels ==
  "mistral-small" :> ModelEntry("mistral-small-latest", 100, 300)
  @@ "mistral-large" :> ModelEntry("mistral-large-latest", 2000, 6000)
  @@ "mistral-medium" :> ModelEntry("mistral-medium-latest", 400, 2000)
  @@ "ministral-8b" :> ModelEntry("ministral-8b-latest", 100, 300)
  @@ "ministral-3b" :> ModelEntry("ministral-3b-latest", 40, 40)
  @@ "magistral-small" :> ModelEntry("magistral-small-latest", 500, 1500)
  @@ "magistral-medium" :> ModelEntry("magistral-medium-latest", 500, 1500)
  @@ "pixtral-large" :> ModelEntry("pixtral-large-latest", 2000, 6000)
  @@ "pixtral-12b" :> ModelEntry("pixtral-12b", 150, 150)

GrokModels ==
  "grok-4" :> ModelEntry("grok-4-latest", 3000, 15000)
  @@ "grok-3-mini" :> ModelEntry("grok-3-mini-latest", 100, 500)
  @@ "grok-3m" :> ModelEntry("grok-3-mini-latest", 100, 500)
  @@ "grok-code-fast" :> ModelEntry("grok-code-fast", 200, 1500)

GeminiModels ==
  "2.5-flash" :> ModelEntry("gemini-2.5-flash", 300, 2500)
  @@ "gemini-2.5f" :> ModelEntry("gemini-2.5-flash", 300, 2500)
  @@ "2.5-pro" :> ModelEntry("gemini-2.5-pro", 1250, 10000)
  @@ "gemini-2.5p" :> ModelEntry("gemini-2.5-pro", 1250, 10000)
  @@ "2.5-flash-lite" :> ModelEntry("gemini-2.5-flash-lite-preview-06-17", 100, 400)
  @@ "gemini-2.5fl" :> ModelEntry("gemini-2.5-flash-lite-preview-06-17", 100, 400)
  @@ "2.0-flash" :> ModelEntry("gemini-2.0-flash", 100, 400)
  @@ "gemini-2f" :> ModelEntry("gemini-2.0-flash", 100, 400)
  @@ "2.0-flash-lite" :> ModelEntry("gemini-2.0-flash-lite", 75, 300)
  @@ "gemini-2fl" :> ModelEntry("gemini-2.0-flash-lite", 75, 300)

TogetherModels ==
  "qw3-235b-think" :> ModelEntry("Qwen/Qwen3-235B-A22B-Thinking-2507", 650, 3000)
  @@ "qw3-480b" :> ModelEntry("Qwen/Qwen3-Coder-480B-A35B-Instruct-FP8", 2000, 2000)
  @@ "qw3-235b-tput" :> ModelEntry("Qwen/Qwen3-235B-A22B-Instruct-2507-tput", 200, 600)
  @@ "qw2.5-vl-72b" :> ModelEntry("Qwen/Qwen2.5-VL-72B-Instruct", 1950, 8000)
  @@ "qwq-32b" :> ModelEntry("Qwen/QwQ-32B", 1200, 1200)
  @@ "llam4-mav" :> ModelEntry("meta-llama/Llama-4-Maverick-17B-128E-Instruct-FP8", 270, 850)
  @@ "llam4-sc" :> ModelEntry("meta-llama/Llama-4-Scout-17B-16E-Instruct", 180, 590)
  @@ "llam3.3-70b-t" :> ModelEntry("meta-llama/Llama-3.3-70B-Instruct-Turbo", 880, 880)
  @@ "mx-8x7b" :> ModelEntry("mistralai/Mixtral-8x7B-Instruct-v0.1", 600, 600)
  @@ "ms-7b" :> ModelEntry("mistralai/Mistral-7B-Instruct-v0.1", 200, 200)
  @@ "ms-24b" :> ModelEntry("mistralai/Mistral-Small-24B-Instruct-2501", 800, 800)
  @@ "ds-r1" :> ModelEntry("deepseek-ai/DeepSeek-R1", 3000, 7000)
  @@ "ds-v3" :> ModelEntry("deepseek-ai/DeepSeek-V3", 1250, 1250)
  @@ "ds-r1-tput" :> ModelEntry("deepseek-ai/DeepSeek-R1-0528-tput", 550, 2190)
  @@ "ds-r1-dis-llam" :> ModelEntry("deepseek-ai/DeepSeek-R1-Distill-Llama-70B", 2000, 2000)
  @@ "ds-r1-dis-qw" :> ModelEntry("deepseek-ai/DeepSeek-R1-Distill-Qwen-14B", 1600, 1600)
  @@ "gemma-3n-4b" :> ModelEntry("google/gemma-3n-E4B-it", 20, 40)
  @@ "oai-gpt-20b" :> ModelEntry("openai/gpt-oss-20b", 50, 200)
  @@ "oai-gpt-120b" :> ModelEntry("openai/gpt-oss-120b", 150, 600)
  @@ "kimi-k2" :> ModelEntry("moonshotai/Kimi-K2-Instruct", 1000, 3000)
  @@ "glm-4.5-air" :> ModelEntry("zai-org/GLM-4.5-Air-FP8", 200, 1100)
  @@ "exa-3.5-32b" :> ModelEntry("lgai/exaone-3-5-32b-instruct", 0, 0)
  @@ "exa-deep-32b" :> ModelEntry("lgai/exaone-deep-32b", 0, 0)
  @@ "rf-small" :> ModelEntry("togethercomputer/Refuel-Llm-V2-Small", 200, 200)
  @@ "cog-v2-70b" :> ModelEntry("deepcogito/cogito-v2-preview-llama-70B", 880, 880)
  @@ "llam3.1-8b-t" :> ModelEntry("meta-llama/Meta-Llama-3.1-8B-Instruct-Turbo", 180, 180)
  @@ "qw2.5-7b-t" :> ModelEntry("Qwen/Qwen2.5-7B-Instruct-Turbo", 300, 300)
  @@ "qw2.5-72b-t" :> ModelEntry("Qwen/Qwen2.5-72B-Instruct-Turbo", 1200, 1200)
  @@ "qw2.5-coder-32b" :> ModelEntry("Qwen/Qwen2.5-Coder-32B-Instruct", 1200, 1200)
  @@ "qw3-235b-tput-fp8" :> ModelEntry("Qwen/Qwen3-235B-A22B-fp8-tput", 200, 600)
  @@ "arcee-coder-l" :> ModelEntry("arcee-ai/coder-large", 500, 800)
  @@ "arcee-maestro" :> ModelEntry("arcee-ai/maestro-reasoning", 900, 3300)
  @@ "llam3.1-405b-t" :> ModelEntry("meta-llama/Meta-Llama-3.1-405B-Instruct-Turbo", 3500, 3500)
  @@ "llam3.2-3b-t" :> ModelEntry("meta-llama/Llama-3.2-3B-Instruct-Turbo", 60, 60)

BuiltinModels ==
  [openai |-> OpenaiModels, anthropic |-> AnthropicModels, mistral |-> MistralModels,
   grok |-> GrokModels, gemini |-> GeminiModels, together |-> TogetherModels]

(* ------------------------- capability tables --------------------------- *)
\* the 'all' sentinel of VISION_MODELS
AllModels == {"all"}

\* VISION_MODELS: the provider's allow-list, or the 'all' sentinel
VISION_MODELS ==
  [openai |-> {"gpt-4om", "gpt-4.1", "gpt-4.1m", "gpt-4.1n", "gpt-5", "gpt-5m",
               "gpt-5n", "gpt-o3m", "gpt-o4m"},
   anthropic |-> AllModels,
   gemini |-> AllModels,
   mistral |-> {"mistral-small", "mistral-medium", "mistral-large", "pixtral-large",
                "pixtral-12b"},
   grok |-> {"grok-4"},
   together |-> {"qw2.5-vl-72b", "llam4-mav", "llam4-sc", "gemma-3n-4b", "qw2-vl-72b"}]

THINKING_MODELS ==
  [openai |-> {"gpt-o3m", "gpt-5", "gpt-5m", "gpt-5n"},
   anthropic |-> {"claude-3.7s", "claude-4s", "claude-4o", "claude-4.1o"},
   gemini |-> {"gemini-2.5p", "gemini-2.5f", "gemini-2.5fl"},
   grok |-> {"grok-3m", "grok-4"}]

\* the language of /^(o[3-4](-mini)?|gpt-5(-mini|-nano)?)$/
ReasoningFamily == {"o3", "o4", "o3-mini", "o4-mini", "gpt-5", "gpt-5-mini", "gpt-5-nano"}

(* ------------------------------ text ----------------------------------- *)
DigitChar == <<"0", "1", "2", "3", "4", "5", "6", "7", "8", "9">>

\* the decimal spelling of a natural number, one character per element
RECURSIVE Digits(_)
Digits(n) == IF n < 10 THEN <<DigitChar[n + 1]>>
             ELSE Digits(n \div 10) \o <<DigitChar[(n % 10) + 1]>>

\* String.prototype.includes on a spelled message
Includes(msg, pat) ==
  \E i \in 1..(Len(msg) - Len(pat) + 1) :
     \A j \in 1..Len(pat) : msg[i + j - 1] = pat[j]

\* Array.prototype.join(', ') of a sequence of pieces
RECURSIVE Join(_)
Join(seq) == IF Len(seq) = 0 THEN <<>>
             ELSE IF Len(seq) = 1 THEN <<seq[1]>>
             ELSE <<seq[1], ", ">> \o Join(Tail(seq))

(* ------------------------- the think option ---------------------------- *)
ThinkUndefined == [k |-> "undefined", n |-> 0, s |-> ""]
ThinkBool(b) == [k |-> "boolean", n |-> IF b THEN 1 ELSE 0, s |-> ""]
ThinkNum(n) == [k |-> "number", n |-> n, s |-> ""]
ThinkStr(s) == [k |-> "string", n |-> 0, s |-> s]

\* `${thinkValue}`
ThinkText(t) ==
  CASE t.k = "number" -> Digits(t.n)
    [] t.k = "string" -> <<t.s>>
    [] t.k = "boolean" -> IF t.n = 1 THEN <<"true">> ELSE <<"false">>
    [] OTHER -> <<"undefined">>

\* a maximum that yields the smaller argument
Max_Smaller(a, b) == IF a < b THEN a ELSE b

Max(a, b) == IF a > b THEN a ELSE b
Min(a, b) == IF a < b THEN a ELSE b

supportsVision(provider, model) ==
  IF provider \notin DOMAIN VISION_MODELS THEN FALSE
  ELSE VISION_MODELS[provider] = AllModels \/ model \in VISION_MODELS[provider]

supportsThinking(provider, model) ==
  provider \in DOMAIN THINKING_MODELS /\ model \in THINKING_MODELS[provider]

NoThinking == [kind |-> "null", reasoning_effort |-> "", budget |-> 0, message |-> <<>>]
Effort(e) == [NoThinking EXCEPT !.kind = "effort", !.reasoning_effort = e]
ThinkingThrow(m) == [NoThinking EXCEPT !.kind = "throw", !.message = m]

\* let budget = 0; if (typeof thinkValue === 'number') ... (lines 138-147)
ThinkBudget(thinkValue) ==
  CASE thinkValue.k = "number" -> thinkValue.n
    [] thinkValue = ThinkBool(TRUE) \/ thinkValue = ThinkStr("medium") -> 2048
    [] thinkValue = ThinkStr("low") -> 1024
    [] thinkValue = ThinkStr("high") -> 4096
    [] OTHER -> 0

getThinkingConfig(provider, model, thinkValue) ==
  IF thinkValue = ThinkUndefined \/ thinkValue = ThinkBool(FALSE) \/ thinkValue = ThinkNum(0)
    THEN NoThinking
  ELSE IF ~supportsThinking(provider, model) THEN NoThinking
  ELSE IF provider = "grok" THEN
    IF thinkValue = ThinkStr("low") \/ thinkValue = ThinkStr("high")
      THEN Effort(thinkValue.s)
    ELSE IF thinkValue = ThinkBool(TRUE) \/ thinkValue = ThinkStr("medium")
      THEN Effort("low")
    ELSE ThinkingThrow(<<"Grok models only support think: 'low' or 'high', not '">>
                       \o ThinkText(thinkValue) \o <<"'">>)
  ELSE IF provider = "openai" /\ model \in ReasoningFamily THEN
    IF thinkValue \in {ThinkStr("low"), ThinkStr("medium"), ThinkStr("high")}
      THEN Effort(thinkValue.s)
    ELSE IF thinkValue = ThinkBool(TRUE) THEN Effort("medium")
    ELSE ThinkingThrow(<<"OpenAI ", model, " only supports think: 'low', 'medium', or 'high', not '">>
                       \o ThinkText(thinkValue) \o <<"'">>)
  ELSE LET budget == ThinkBudget(thinkValue) IN
    IF budget > 0 /\ provider = "gemini"
      THEN [NoThinking EXCEPT !.kind = "thinkingBudget",
                              !.budget = Max(512, Min(24576, budget))]
    ELSE IF budget > 0 /\ provider = "anthropic"
      THEN [NoThinking EXCEPT !.kind = "enabled",
                              !.budget = Max(1024, Min(8012, budget))]
    ELSE NoThinking

(* --------------------------- images ------------------------------------ *)
\* An image reference.  scheme "data": a data-URL with its mime and the bytes
\* its base64 payload decodes to; "http": a remote URL; "bare": a base64
\* string without prefix, held as the bytes it decodes to; "buffer": raw
\* binary (a Buffer); "undefined": no url field.
DataUrl(mime, bytes) == [scheme |-> "data", mime |-> mime, bytes |-> bytes]
HttpUrl == [scheme |-> "http", mime |-> "", bytes |-> <<>>]
BareBase64(bytes) == [scheme |-> "bare", mime |-> "", bytes |-> bytes]
RawBuffer(bytes) == [scheme |-> "buffer", mime |-> "", bytes |-> bytes]
NoUrl == [scheme |-> "undefined", mime |-> "", bytes |-> <<>>]

detectImageFormat(buffer) ==
  IF Len(buffer) < 4 THEN "image/jpeg"
  ELSE IF buffer[1] = 255 /\ buffer[2] = 216 /\ buffer[3] = 255 THEN "image/jpeg"
  ELSE IF buffer[1] = 137 /\ buffer[2] = 80 /\ buffer[3] = 78 /\ buffer[4] = 71 THEN "image/png"
  ELSE IF /\ buffer[1] = 82 /\ buffer[2] = 73 /\ buffer[3] = 70 /\ buffer[4] = 70
          /\ Len(buffer) > 12
          /\ buffer[9] = 87 /\ buffer[10] = 69 /\ buffer[11] = 66 /\ buffer[12] = 80
       THEN "image/webp"
  ELSE IF buffer[1] = 71 /\ buffer[2] = 73 /\ buffer[3] = 70 THEN "image/gif"
  ELSE "image/jpeg"

\* typeof content === 'string' && !startsWith('data:') && !/^https?:\/\//i
processImageContent(content) ==
  IF content.scheme = "bare"
    THEN DataUrl(detectImageFormat(content.bytes), content.bytes)
  ELSE content

\* processImageContent of tinyCallAI.js: a Buffer is wrapped with its sniffed
\* mime, every string that does not start with 'data:' as image/jpeg
tinyCallAI_processImageContent(content) ==
  IF content.scheme = "buffer"
    THEN DataUrl(detectImageFormat(content.bytes), content.bytes)
  ELSE IF content.scheme = "bare" THEN DataUrl("image/jpeg", content.bytes)
  ELSE IF content.scheme = "http"
    THEN [scheme |-> "data", mime |-> "image/jpeg", bytes |-> <<"http://...">>]
  ELSE content

(* --------------------------- messages ---------------------------------- *)
\* A content part.  type "#string" is a bare string item of a content array.
TextPart(t) == [type |-> "text", text |-> t, url |-> NoUrl]
ImagePart(u) == [type |-> "image", text |-> "", url |-> u]
ImageUrlPart(u) == [type |-> "image_url", text |-> "", url |-> u]
StringItem(t) == [type |-> "#string", text |-> t, url |-> NoUrl]

\* A message content: a string, an array of parts, or null/undefined.
StringContent(t) == [kind |-> "string", text |-> t, parts |-> <<>>]
ArrayContent(ps) == [kind |-> "array", text |-> "", parts |-> ps]
NullContent == [kind |-> "null", text |-> "", parts |-> <<>>]

Message(role, content) == [role |-> role, content |-> content]

normalizeItem(item) ==
  IF item.type = "#string" THEN TextPart(item.text)
  ELSE IF item.type = "image" /\ item.url # NoUrl THEN ImagePart(processImageContent(item.url))
  ELSE IF item.type = "image_url" /\ item.url # NoUrl
    THEN ImageUrlPart(processImageContent(item.url))
  ELSE item

normalizeContent(content) ==
  IF content.kind = "string" THEN ArrayContent(<<TextPart(content.text)>>)
  ELSE IF content.kind = "array"
    THEN ArrayContent([i \in 1..Len(content.parts) |-> normalizeItem(content.parts[i])])
  ELSE ArrayContent(<<TextPart("")>>)

\* line 639: only array contents go through normalizeContent
NormalizeMessages(messages) ==
  [i \in 1..Len(messages) |->
     [messages[i] EXCEPT !.content =
        IF messages[i].content.kind = "array" THEN normalizeContent(messages[i].content)
        ELSE messages[i].content]]

\* a gate that looks for 'image' parts only and overlooks 'image_url'
isVisionRequest_ImageOnly(messages) ==
  \E i \in 1..Len(messages) :
     /\ messages[i].content.kind = "array"
     /\ \E j \in 1..Len(messages[i].content.parts) :
           messages[i].content.parts[j].type = "image"

isVisionRequest(messages) ==
  \E i \in 1..Len(messages) :
     /\ messages[i].content.kind = "array"
     /\ \E j \in 1..Len(messages[i].content.parts) :
           messages[i].content.parts[j].type \in {"image", "image_url"}

(* --------------------------- options ----------------------------------- *)
Options(maxTokens, temperature, think, timeout) ==
  [maxTokens |-> maxTokens, temperature |-> temperature, think |-> think,
   timeout |-> timeout, tools |-> FALSE, stream |-> FALSE]

NoOptions == Options(undefined, undefined, ThinkUndefined, undefined)

\* v || d on numbers: undefined and 0 are falsy
OrDefault(v, d) == IF v = undefined \/ v = 0 THEN d ELSE v

(* --------------------------- wire payloads ----------------------------- *)
\* One record shape for every adapter; a field the adapter does not set
\* keeps its value of NoPayload (undefined, "", NullContent, NoThinking).
NoPayload ==
  [model |-> "", messages |-> <<>>, contents |-> <<>>,
   temperature |-> undefined, max_tokens |-> undefined,
   max_completion_tokens |-> undefined, maxOutputTokens |-> undefined,
   reasoning_effort |-> "", thinking |-> NoThinking, thinkingConfig |-> NoThinking,
   system |-> NullContent, system_instruction |-> NullContent,
   tools |-> FALSE, stream |-> FALSE]

\* what a formatPayload call leaves behind: the payload or the exception,
\* and the caller's message list as it is after the call
Formatted(payload, messages) ==
  [threw |-> FALSE, message |-> <<>>, payload |-> payload, messages |-> messages]
\* a formatter whose exception is swallowed: the request goes out regardless
FormatThrew_Swallowed(message, messages) == Formatted(NoPayload, messages)

FormatThrew(message, messages) ==
  [threw |-> TRUE, message |-> message, payload |-> NoPayload, messages |-> messages]

\* the strings of the text universe that trim() empties
WhitespaceOnly == {"", " "}

\* JavaScript truthiness of a message content
Truthy(content) == content.kind = "array" \/ (content.kind = "string" /\ content.text # "")

\* String(array): the items' String() joined by ','
RECURSIVE ArrayToString(_)
ArrayToString(parts) ==
  IF Len(parts) = 0 THEN ""
  ELSE IF Len(parts) = 1 THEN "[object Object]"
  ELSE "[object Object]," \o ArrayToString(Tail(parts))

ContentToString(content) ==
  IF content.kind = "string" THEN content.text
  ELSE IF content.kind = "array" THEN ArrayToString(content.parts)
  ELSE "undefined"

\* the last system message's content, '' when there is none
RECURSIVE LastSystem(_)
LastSystem(messages) ==
  IF Len(messages) = 0 THEN StringContent("")
  ELSE IF messages[Len(messages)].role = "system" THEN messages[Len(messages)].content
  ELSE LastSystem(SubSeq(messages, 1, Len(messages) - 1))

\* item.type === 'image' ? {type:'image_url', image_url:{url: processImageContent(item.url)}} : item
ToImageUrl(item) ==
  IF item.type = "image" THEN ImageUrlPart(processImageContent(item.url)) ELSE item

\* messages.map(...) of the openai and mistral adapters
OpenAIStyleMessages(messages) ==
  IF isVisionRequest(messages) THEN
    [i \in 1..Len(messages) |->
       IF messages[i].content.kind = "array"
         THEN [messages[i] EXCEPT !.content.parts =
                 [j \in 1..Len(messages[i].content.parts) |->
                    ToImageUrl(messages[i].content.parts[j])]]
       ELSE messages[i]]
  ELSE messages

\* an adapter that treats every model as a conversational one
openaiFormatPayload_Conversational(messages, model, maxTokens, options) ==
  Formatted([NoPayload EXCEPT !.model = model,
                              !.messages = OpenAIStyleMessages(messages),
                              !.temperature = OrDefault(options.temperature, DefaultTemperature),
                              !.max_tokens = OrDefault(maxTokens, DefaultMaxTokens)],
            messages)

openaiFormatPayload(messages, model, maxTokens, options) ==
  LET base == [NoPayload EXCEPT !.model = model,
                                !.messages = OpenAIStyleMessages(messages),
                                !.temperature = OrDefault(options.temperature, DefaultTemperature)]
      thinking == getThinkingConfig("openai", model, options.think)
  IN IF model \in ReasoningFamily THEN
       IF thinking.kind = "throw" THEN FormatThrew(thinking.message, messages)
       ELSE Formatted([base EXCEPT !.max_completion_tokens = OrDefault(maxTokens, DefaultMaxTokens),
                                   !.temperature = 10,
                                   !.reasoning_effort = thinking.reasoning_effort],
                      messages)
     ELSE Formatted([base EXCEPT !.max_tokens = OrDefault(maxTokens, DefaultMaxTokens)], messages)

mistralFormatPayload(messages, model, maxTokens, options) ==
  Formatted([NoPayload EXCEPT !.model = model,
                              !.messages = OpenAIStyleMessages(messages),
                              !.max_tokens = OrDefault(maxTokens, DefaultMaxTokens),
                              !.temperature = OrDefault(options.temperature, DefaultTemperature)],
            messages)

grokFormatPayload(messages, model, maxTokens, options) ==
  LET thinking == getThinkingConfig("grok", model, options.think)
  IN IF thinking.kind = "throw" THEN FormatThrew(thinking.message, messages)
     ELSE Formatted([NoPayload EXCEPT !.model = model,
                                      !.messages = messages,
                                      !.max_tokens = OrDefault(maxTokens, DefaultMaxTokens),
                                      !.temperature = OrDefault(options.temperature, DefaultTemperature),
                                      !.reasoning_effort = thinking.reasoning_effort],
                    messages)

\* dataUrl.split(',')[1] and dataUrl.match(/data:([^;]+)/) on a string url:
\* a data-URL gives its mime and payload, any other string gives
\* 'image/jpeg' and an undefined payload
Base64Source(dataUrl) ==
  IF dataUrl.scheme = "data"
    THEN [scheme |-> "base64", mime |-> dataUrl.mime, bytes |-> dataUrl.bytes]
  ELSE [scheme |-> "nodata", mime |-> "image/jpeg", bytes |-> <<>>]

\* processImageContent(item.url) is not a string: .split throws a TypeError
SplitThrows(item) == item.type = "image" /\ item.url.scheme \in {"undefined", "buffer"}

SplitTypeError == <<"Cannot read properties of undefined (reading 'split')">>
TrimTypeError == <<"systemMessage.trim is not a function">>

\* a user/assistant turn of a vision request holds an image whose url cannot be split
ImageConversionThrows(messages) ==
  /\ isVisionRequest(messages)
  /\ \E i \in 1..Len(messages) :
        /\ messages[i].role \in {"user", "assistant"}
        /\ messages[i].content.kind = "array"
        /\ \E j \in 1..Len(messages[i].content.parts) : SplitThrows(messages[i].content.parts[j])

AnthropicPart(item) ==
  IF item.type = "image"
    THEN [type |-> "image_source", text |-> "", url |-> Base64Source(processImageContent(item.url))]
  ELSE item

RECURSIVE AnthropicTurns(_, _)
AnthropicTurns(messages, isVision) ==
  IF Len(messages) = 0 THEN <<>>
  ELSE LET msg == Head(messages)
           rest == AnthropicTurns(Tail(messages), isVision)
       IN IF msg.role \in {"user", "assistant"} THEN
            IF isVision /\ msg.content.kind = "array"
              THEN <<[msg EXCEPT !.content.parts =
                        [j \in 1..Len(msg.content.parts) |-> AnthropicPart(msg.content.parts[j])]]>>
                   \o rest
            ELSE <<Message(msg.role, msg.content)>> \o rest
          ELSE rest

anthropicFormatPayload(messages, model, maxTokens, options) ==
  LET sys0 == LastSystem(messages)
      turns0 == AnthropicTurns(messages, isVisionRequest(messages))
      synth == Len(turns0) = 0 /\ Truthy(sys0)
      turns == IF synth
                 THEN <<Message("user",
                          StringContent("[SYSTEM INSTRUCTIONS]" \o ContentToString(sys0)))>>
               ELSE turns0
      systemMessage == IF synth THEN StringContent("") ELSE sys0
      thinking == getThinkingConfig("anthropic", model, options.think)
      base == [NoPayload EXCEPT !.model = model, !.messages = turns,
                                !.max_tokens = OrDefault(maxTokens, DefaultMaxTokens),
                                !.thinking = thinking]
  IN IF ImageConversionThrows(messages) THEN FormatThrew(SplitTypeError, messages)
     ELSE IF thinking.kind = "throw" THEN FormatThrew(thinking.message, messages)
     ELSE IF Truthy(systemMessage) /\ systemMessage.kind = "array"
       THEN FormatThrew(TrimTypeError, messages)
     ELSE IF Truthy(systemMessage) /\ systemMessage.text \notin WhitespaceOnly
       THEN Formatted([base EXCEPT !.system = systemMessage], messages)
     ELSE Formatted(base, messages)

\* the together adapter's per-item conversion
TogetherPart(item) ==
  IF item.type = "text" THEN TextPart(item.text)
  ELSE IF item.type = "image_url" /\ item.url # NoUrl
    THEN ImageUrlPart(processImageContent(item.url))
  ELSE IF item.type = "image" /\ item.url # NoUrl
    THEN ImageUrlPart(processImageContent(item.url))
  ELSE IF item.type \in {"image", "image_url"} THEN TextPart("[object Object]")
  ELSE TextPart(item.text)

RECURSIVE TogetherMessages(_)
TogetherMessages(messages) ==
  IF Len(messages) = 0 THEN <<>>
  ELSE LET msg == Head(messages)
           rest == TogetherMessages(Tail(messages))
       IN IF msg.role = "" THEN rest
          ELSE IF msg.content.kind = "array"
            THEN <<[msg EXCEPT !.content.parts =
                      [j \in 1..Len(msg.content.parts) |-> TogetherPart(msg.content.parts[j])]]>>
                 \o rest
          ELSE IF msg.content.kind = "string"
            THEN <<[msg EXCEPT !.content = ArrayContent(<<TextPart(msg.content.text)>>)]>> \o rest
          ELSE <<msg>> \o rest

togetherFormatPayload(messages, model, maxTokens, options) ==
  Formatted([NoPayload EXCEPT !.model = model,
                              !.messages = TogetherMessages(messages),
                              !.temperature = OrDefault(options.temperature, DefaultTemperature),
                              !.max_tokens = OrDefault(maxTokens, DefaultMaxTokens),
                              !.tools = options.tools,
                              !.stream = options.stream],
            messages)

\* {text: t}: a gemini part, which has no type field
GeminiText(t) == [type |-> "", text |-> t, url |-> NoUrl]

GeminiPart(item) ==
  IF item.type = "image"
    THEN [type |-> "inlineData", text |-> "", url |-> Base64Source(processImageContent(item.url))]
  ELSE IF item.type = "text" THEN GeminiText(item.text)
  ELSE GeminiText("[object Object]")

\* a loop that pushes every turn as an entry of its own
RECURSIVE GeminiLoop_NoMerge(_, _, _, _)
GeminiLoop_NoMerge(i, conv, msgs, isVision) ==
  IF i > Len(msgs) THEN [conv |-> conv, msgs |-> msgs]
  ELSE LET msg == msgs[i]
           parts == IF isVision /\ msg.content.kind = "array"
                      THEN [j \in 1..Len(msg.content.parts) |-> GeminiPart(msg.content.parts[j])]
                    ELSE IF msg.content.kind = "array" THEN msg.content.parts
                    ELSE <<GeminiText(msg.content.text)>>
       IN IF msg.role \notin {"user", "assistant"} \/ msg.content.kind = "null"
            THEN GeminiLoop_NoMerge(i + 1, conv, msgs, isVision)
          ELSE GeminiLoop_NoMerge(i + 1,
                 Append(conv, [role |-> IF msg.role = "assistant" THEN "model" ELSE "user",
                               parts |-> parts, alias |-> 0]),
                 msgs, isVision)

\* The loop of gemini.formatPayload (lines 381-425) from message i on.
\* conv is convertedMessages, each entry with the index (alias) of the input
\* message whose content array its parts array IS (0 for a fresh array, line
\* 412 makes it the input's own array); msgs is the caller's message list,
\* which lastMessage.parts.push(...) changes through that sharing (line 421).
RECURSIVE GeminiLoop(_, _, _, _)
GeminiLoop(i, conv, msgs, isVision) ==
  IF i > Len(msgs) THEN [conv |-> conv, msgs |-> msgs]
  ELSE LET msg == msgs[i]
           currentRole == IF msg.role = "assistant" THEN "model" ELSE "user"
           shared == ~isVision /\ msg.content.kind = "array"
           parts == IF isVision /\ msg.content.kind = "array"
                      THEN [j \in 1..Len(msg.content.parts) |-> GeminiPart(msg.content.parts[j])]
                    ELSE IF msg.content.kind = "array" THEN msg.content.parts
                    ELSE <<GeminiText(msg.content.text)>>
           last == conv[Len(conv)]
       IN IF msg.role \notin {"user", "assistant"} \/ msg.content.kind = "null"
            THEN GeminiLoop(i + 1, conv, msgs, isVision)
          ELSE IF Len(conv) > 0 /\ last.role = currentRole
            THEN GeminiLoop(i + 1,
                   [conv EXCEPT ![Len(conv)].parts = last.parts \o parts],
                   IF last.alias # 0
                     THEN [msgs EXCEPT ![last.alias].content.parts = last.parts \o parts]
                   ELSE msgs,
                   isVision)
          ELSE GeminiLoop(i + 1,
                 Append(conv, [role |-> currentRole, parts |-> parts,
                               alias |-> IF shared THEN i ELSE 0]),
                 msgs, isVision)

geminiFormatPayload(messages, model, maxTokens, options) ==
  LET sys0 == LastSystem(messages)
      loop == GeminiLoop(1, <<>>, messages, isVisionRequest(messages))
      turns0 == [k \in 1..Len(loop.conv) |->
                   [role |-> loop.conv[k].role, parts |-> loop.conv[k].parts]]
      synth == Len(turns0) = 0 /\ Truthy(sys0)
      turns == IF synth
                 THEN <<[role |-> "user", parts |-> <<GeminiText(ContentToString(sys0))>>]>>
               ELSE turns0
      systemMessage == IF synth THEN StringContent("") ELSE sys0
      thinking == getThinkingConfig("gemini", model, options.think)
      base == [NoPayload EXCEPT !.contents = turns,
                                !.maxOutputTokens = OrDefault(maxTokens, DefaultMaxTokens),
                                !.temperature = OrDefault(options.temperature, DefaultTemperature),
                                !.thinkingConfig = thinking]
  IN IF ImageConversionThrows(messages) THEN FormatThrew(SplitTypeError, messages)
     ELSE IF thinking.kind = "throw" THEN FormatThrew(thinking.message, loop.msgs)
     ELSE IF Truthy(systemMessage) /\ systemMessage.kind = "array"
       THEN FormatThrew(TrimTypeError, loop.msgs)
     ELSE IF Truthy(systemMessage) /\ systemMessage.text \notin WhitespaceOnly
       THEN Formatted([base EXCEPT !.system_instruction = systemMessage], loop.msgs)
     ELSE Formatted(base, loop.msgs)

\* config.formatPayload(messages, modelConfig.name, options.maxTokens, options)
formatPayload(provider, messages, model, maxTokens, options) ==
  CASE provider = "openai" -> openaiFormatPayload(messages, model, maxTokens, options)
    [] provider = "anthropic" -> anthropicFormatPayload(messages, model, maxTokens, options)
    [] provider = "mistral" -> mistralFormatPayload(messages, model, maxTokens, options)
    [] provider = "grok" -> grokFormatPayload(messages, model, maxTokens, options)
    [] provider = "gemini" -> geminiFormatPayload(messages, model, maxTokens, options)
    [] OTHER -> togetherFormatPayload(messages, model, maxTokens, options)

(* --------------------------- wire responses ---------------------------- *)
\* the text an adapter extracts: a string or undefined
Str(t) == [kind |-> "string", text |-> t]
UndefinedText == [kind |-> "undefined", text |-> ""]

\* response.usage / response.usageMetadata; present = FALSE: no such block
Usage(pt, ct, tt, it, ot, ptc, ctc, ttc) ==
  [present |-> TRUE, prompt_tokens |-> pt, completion_tokens |-> ct, total_tokens |-> tt,
   input_tokens |-> it, output_tokens |-> ot,
   promptTokenCount |-> ptc, candidatesTokenCount |-> ctc, totalTokenCount |-> ttc]

NoUsage == [Usage(undefined, undefined, undefined, undefined, undefined,
                  undefined, undefined, undefined) EXCEPT !.present = FALSE]

\* A parsed response body.  shape names the envelope it has: "choices"
\* (choices[0].message, content = text; text undefined: a message without
\* content), "content" (content[0], text = text),
\* "candidates" (candidates[0].content.parts = parts), "output" (output =
\* text) or "none".
Response(shape, text, parts, usage, usageMetadata) ==
  [shape |-> shape, text |-> text, parts |-> parts,
   usage |-> usage, usageMetadata |-> usageMetadata]

\* what JSON.parse yields for the body 'null'
NullData == Response("null", UndefinedText, <<>>, NoUsage, NoUsage)

Extracted(t) == [threw |-> FALSE, message |-> <<>>, text |-> t]
ExtractThrew(m) == [threw |-> TRUE, message |-> m, text |-> UndefinedText]

\* parts.filter(p => p.text).map(p => p.text).join('')
RECURSIVE JoinTexts(_)
JoinTexts(parts) == IF Len(parts) = 0 THEN "" ELSE Head(parts) \o JoinTexts(Tail(parts))

\* data.choices?.[0]?.message?.content ?? ''
ChoicesContentOrEmpty(data) ==
  IF data.shape = "choices" /\ data.text.kind = "string" THEN Extracted(data.text)
  ELSE Extracted(Str(""))

extractResponse(provider, data) ==
  IF data = NullData
    THEN ExtractThrew(<<"Cannot read properties of null (reading '",
                        CASE provider = "anthropic" -> "content"
                          [] provider = "gemini" -> "candidates"
                          [] OTHER -> "choices", "')">>)
  ELSE
  CASE provider \in {"openai", "mistral", "grok"} -> ChoicesContentOrEmpty(data)
    [] provider = "anthropic" ->
         IF data.shape = "content" THEN Extracted(data.text)
         ELSE ExtractThrew(<<"Cannot read properties of undefined (reading '", "0", "')">>)
    [] provider = "gemini" ->
         IF data.shape = "candidates" /\ Len(data.parts) > 0
           THEN Extracted(Str(JoinTexts(data.parts)))
         ELSE ExtractThrew(<<"Invalid Gemini response structure">>)
    [] OTHER ->
         IF data.shape = "choices" THEN Extracted(data.text)
         ELSE IF data.shape = "output" /\ data.text.kind = "string" THEN Extracted(data.text)
         ELSE Extracted(Str(""))

(* --------------------------- usage ------------------------------------- *)
\* Math.ceil(chars / 3.75)
CeilDiv375(chars) == (4 * chars + 14) \div 15

RECURSIVE PartChars(_)
PartChars(parts) ==
  IF Len(parts) = 0 THEN 0
  ELSE LET item == Head(parts)
       IN (IF item.type = "text" THEN Len(item.text)
           ELSE IF item.type \in {"image", "image_url"} THEN 1000
           ELSE 0) + PartChars(Tail(parts))

RECURSIVE PromptChars(_)
PromptChars(messages) ==
  IF Len(messages) = 0 THEN 0
  ELSE LET msg == Head(messages)
       IN (IF msg.content.kind = "string" THEN Len(msg.content.text)
           ELSE IF msg.content.kind = "array" THEN PartChars(msg.content.parts)
           ELSE 0) + PromptChars(Tail(messages))

UsageResult(p, c, t) == [prompt_tokens |-> p, completion_tokens |-> c, total_tokens |-> t]

\* a || b || 0 on token counts
Or0(a) == OrDefault(a, 0)
Or2(a, b) == OrDefault(a, OrDefault(b, 0))

\* a normalizer that also estimates when the block reports no total
normalizeUsage_EstimatesWithoutTotal(provider, usage, messages, responseText) ==
  IF ~usage.present
     \/ (usage.total_tokens = undefined /\ usage.totalTokenCount = undefined) THEN
    LET promptChars == PromptChars(messages)
        completionChars == IF responseText.kind = "string" THEN Len(responseText.text) ELSE 0
    IN UsageResult(CeilDiv375(promptChars), CeilDiv375(completionChars),
                   CeilDiv375(promptChars + completionChars))
  ELSE UsageResult(Or2(usage.prompt_tokens, usage.input_tokens),
                   Or2(usage.completion_tokens, usage.output_tokens),
                   OrDefault(usage.total_tokens,
                             Or2(usage.prompt_tokens, usage.input_tokens)
                             + Or2(usage.completion_tokens, usage.output_tokens)))

normalizeUsage(provider, usage, messages, responseText) ==
  IF ~usage.present THEN
    LET promptChars == PromptChars(messages)
        completionChars == IF responseText.kind = "string" THEN Len(responseText.text) ELSE 0
    IN UsageResult(CeilDiv375(promptChars), CeilDiv375(completionChars),
                   CeilDiv375(promptChars + completionChars))
  ELSE IF provider = "gemini" /\ usage.promptTokenCount # undefined THEN
    UsageResult(Or0(usage.promptTokenCount), Or0(usage.candidatesTokenCount),
                Or0(usage.promptTokenCount) + Or0(usage.candidatesTokenCount))
  ELSE IF provider = "anthropic"
          /\ (usage.input_tokens # undefined \/ usage.output_tokens # undefined) THEN
    UsageResult(Or0(usage.input_tokens), Or0(usage.output_tokens),
                Or0(usage.input_tokens) + Or0(usage.output_tokens))
  ELSE
    UsageResult(Or2(usage.prompt_tokens, usage.input_tokens),
                Or2(usage.completion_tokens, usage.output_tokens),
                OrDefault(usage.total_tokens,
                          Or2(usage.prompt_tokens, usage.input_tokens)
                          + Or2(usage.completion_tokens, usage.output_tokens)))

\* const rawUsage = provider === 'gemini' ? response.usageMetadata : response.usage
RawUsage(provider, response) ==
  IF provider = "gemini" THEN response.usageMetadata ELSE response.usage

(* --------------------------- cost -------------------------------------- *)
\* a conversion that cuts the digits after the sixth instead of rounding
ToFixed6_Truncates(tokens, rate) == {(tokens * rate) \div 1000}

\* parseFloat(((tokens / 1_000_000) * rate).toFixed(6)) in millionths of a
\* dollar, for a rate in thousandths: the integers nearest to
\* tokens * rate / 1000.  At an exact tie the double that JavaScript rounds
\* lies just above or just below the tie, so either neighbour can come out.
ToFixed6(tokens, rate) ==
  LET x == tokens * rate
      q == x \div 1000
      r == x % 1000
  IN IF r < 500 THEN {q} ELSE IF r > 500 THEN {q + 1} ELSE {q, q + 1}

Cost(cin, cout) == [in |-> cin, out |-> cout, total |-> cin + cout]

\* lines 679-684: the cost objects the computation can yield
ComputeCost(usage, modelConfig) ==
  {Cost(cin, cout) : cin \in ToFixed6(usage.prompt_tokens, modelConfig.cost.in),
                     cout \in ToFixed6(usage.completion_tokens, modelConfig.cost.out)}

(* --------------------------- transport --------------------------------- *)
\* A response body as makeRequest sees it.  kind "empty" ('' ), "blank"
\* (whitespace only), "text" (not JSON) or "json"; raw spells
\* body.substring(0, 200); errorMessage and message spell parsed.error.message
\* and parsed.message (<<>> when absent); data is the parsed body.
Body(kind, raw, errorMessage, message, data) ==
  [kind |-> kind, raw |-> raw, errorMessage |-> errorMessage, message |-> message,
   data |-> data]

NoData == Response("none", UndefinedText, <<>>, NoUsage, NoUsage)
NoBody == Body("empty", <<>>, <<>>, <<>>, NoData)

\* the body 'null'
NullBody == Body("json", <<"null">>, <<>>, <<>>, NullData)

\* what ends a request: the response's 'end', the request's 'error' or 'timeout'
EndEvent(status, body) == [event |-> "end", status |-> status, body |-> body, text |-> <<>>]
ErrorEvent(text) == [event |-> "error", status |-> 0, body |-> NoBody, text |-> text]
TimeoutEvent == [event |-> "timeout", status |-> 0, body |-> NoBody, text |-> <<>>]

Resolved(data) == [ok |-> TRUE, data |-> data, message |-> <<>>]
Rejected(message) == [ok |-> FALSE, data |-> NoData, message |-> message]

\* parsed.error?.message || parsed.message || body.substring(0, 200)
UpstreamErrorMsg(body) ==
  IF body.errorMessage # <<>> THEN body.errorMessage
  ELSE IF body.message # <<>> THEN body.message
  ELSE body.raw

\* a promise that every call of resolve or reject settles anew
Settle_LastCallWins(promise, outcome) == [settled |-> TRUE, outcome |-> outcome]

\* resolve(value) / reject(error) on a promise: the first call settles it,
\* a later call changes nothing
Settle(promise, outcome) ==
  IF promise.settled THEN promise ELSE [settled |-> TRUE, outcome |-> outcome]

\* what the handler of an event passes to resolve or reject; the promise of
\* makeRequest settles on the first event
makeRequest(ev, timeout) ==
  IF ev.event = "timeout"
    THEN Rejected(<<"Request timeout after ">> \o Digits(timeout) \o <<"ms">>)
  ELSE IF ev.event = "error" THEN Rejected(ev.text)
  ELSE IF ev.body.kind \in {"empty", "blank"}
    THEN Rejected(<<"Empty response from API (status: ">> \o Digits(ev.status) \o <<")">>)
  ELSE IF ev.body.kind = "json" /\ (ev.body.data # NullData \/ (ev.status >= 200 /\ ev.status < 300)) THEN
    \* parsed.error of null throws inside the try: the catch at line 604
    IF ev.status >= 200 /\ ev.status < 300 THEN Resolved(ev.body.data)
    ELSE Rejected(<<"API Error [">> \o Digits(ev.status) \o <<"]: ">>
                  \o UpstreamErrorMsg(ev.body))
  ELSE Rejected(<<"Failed to parse JSON response. Status: ">> \o Digits(ev.status)
                \o <<", Body: ">> \o ev.body.raw \o <<"...">>)

(* --------------------------- callAI errors ----------------------------- *)
\* an Error as the caller sees it; available is the alias list of the
\* 'Unknown model' error of argument resolution
Error(message) == [message |-> message, available |-> {}]
NoError == Error(<<>>)

\* a table that names grok's variable after the provider id
EnvVarName_GrokKey(provider) ==
  CASE provider = "openai" -> "OPENAI_API_KEY"
    [] provider = "mistral" -> "MISTRAL_API_KEY"
    [] provider = "gemini" -> "GEMINI_API_KEY"
    [] provider = "grok" -> "GROK_API_KEY"
    [] provider = "anthropic" -> "ANTHROPIC_API_KEY"
    [] OTHER -> "TOGETHER_API_KEY"

EnvVarName(provider) ==
  CASE provider = "openai" -> "OPENAI_API_KEY"
    [] provider = "mistral" -> "MISTRAL_API_KEY"
    [] provider = "gemini" -> "GEMINI_API_KEY"
    [] provider = "grok" -> "XAI_API_KEY"
    [] provider = "anthropic" -> "ANTHROPIC_API_KEY"
    [] OTHER -> "TOGETHER_API_KEY"

MissingKeyMessage(provider) ==
  <<"Missing API key for ", provider, ". Set ", EnvVarName(provider), " in .env">>

VisionListText ==
  "gpt-4om, gpt-4.1, gpt-4.1m, gpt-4.1n, gpt-5, gpt-5m, gpt-5n, gpt-o3m, gpt-o4m, all anthropic models, all gemini models, mistral-small, mistral-medium, mistral-large, pixtral-large, pixtral-12b, grok-4, qw2.5-vl-72b, llam4-mav, llam4-sc, gemma-3n-4b, qw2-vl-72b"

VisionMessage(model) ==
  <<"Model ", model, " doesn't support images. Use one of: ", VisionListText>>

InvalidArguments ==
  <<"Invalid arguments. Use: callAI(model, messages, options?) or callAI(provider, model, messages, options?)">>

\* the catch block of callAI (lines 688-696)
CatchMessage(provider, message) ==
  IF Includes(message, <<"4", "0", "1">>)
    THEN <<"Authentication failed for ", provider, ". Check your API key.">>
  ELSE IF Includes(message, <<"4", "2", "9">>)
    THEN <<"Rate limit exceeded for ", provider, ". Try again later.">>
  ELSE IF Includes(message, <<"4", "0", "2">>)
    THEN <<"Payment required for ", provider, ". Check account balance.">>
  ELSE IF provider = "anthropic" /\ Includes(message, <<"invalid_api_key">>)
    THEN <<"Invalid Anthropic API key. Check if it starts with sk-ant-api03-">>
  ELSE <<provider, " API call failed: ">> \o message

(* --------------------------- model resolver ---------------------------- *)
NullProvider == "null"

\* The model tables are object literals, so table[key] also finds what
\* Object.prototype hands down: a function (the prototype itself for
\* __proto__), truthy, with a name of its own and no cost.
ObjectPrototypeMembers ==
  {"constructor", "toString", "toLocaleString", "valueOf", "hasOwnProperty",
   "isPrototypeOf", "propertyIsEnumerable", "__proto__"}

UndefinedCost == [in |-> undefined, out |-> undefined]

\* Object.prototype[key]; its .name is 'Object' for the constructor, the
\* method's name for a method, undefined ("") for the prototype object
Inherited(key) ==
  [name |-> IF key = "constructor" THEN "Object"
            ELSE IF key = "__proto__" THEN "" ELSE key,
   cost |-> UndefinedCost]

\* table[key] is truthy
HasMember(table, key) == key \in DOMAIN table \/ key \in ObjectPrototypeMembers

\* table[key], for a key that HasMember
Lookup(table, key) == IF key \in DOMAIN table THEN table[key] ELSE Inherited(key)

RECURSIVE FindFrom(_, _, _)
FindFrom(i, tables, model) ==
  IF i > Len(ProviderOrder) THEN NullProvider
  ELSE IF HasMember(tables[ProviderOrder[i]], model) THEN ProviderOrder[i]
  ELSE FindFrom(i + 1, tables, model)

findProviderForModel(tables, model) == FindFrom(1, tables, model)

\* Object.entries(AI_PROVIDERS).flatMap(([p, c]) => Object.keys(c.models))
AllAliases(tables) == UNION {DOMAIN tables[p] : p \in Providers}

(* --------------------------- custom models ----------------------------- *)
\* the _MODELS export of _models.js (README, "Bring Your Own Models")
CustomModels ==
  [openai |-> "gpt-6-turbo" :> ModelEntry("gpt-6-turbo-2025", 5000, 15000),
   anthropic |-> "claude-5-opus" :> ModelEntry("claude-5-opus-20260101", 10000, 30000)]

\* what the merge loop has assigned when Object.assign throws on the export's
\* second entry (a throwing getter among its models, or a key such as
\* 'constructor' whose AI_PROVIDERS member has no models): the first
\* provider's entries
CustomModelsBeforeThrow == [p \in {"openai"} |-> CustomModels[p]]

\* a merge loop that assigns nothing
MergeCustom_AssignsNothing(tables, custom) == tables

\* for (const [provider, models] of Object.entries(module._MODELS))
\*   if (AI_PROVIDERS[provider]) Object.assign(AI_PROVIDERS[provider].models, models)
MergeCustom(tables, custom) ==
  [p \in Providers |-> IF p \in DOMAIN custom THEN custom[p] @@ tables[p] ELSE tables[p]]

(* --------------------------- state ------------------------------------- *)
Calls == 1..NumCalls

VARIABLES
  customModelsLoaded,  \* the module-level flag
  models,              \* AI_PROVIDERS[p].models, for every provider p
  apiKey,              \* AI_PROVIDERS[p].apiKey, read from the environment at load
  customFile,          \* _models.js: "absent", "valid", "throws" (import fails)
                       \* or "mergeThrows" (the merge throws part-way)
  mergeCount,          \* how many times the merge loop of loadCustomModels has run
  callsMade,           \* how many invocations of callAI have started
  pc,                  \* where each invocation is: "idle", "import" (suspended at
                       \* await import), "resume" (suspended at await
                       \* loadCustomModels()), "transport" (suspended at await
                       \* makeRequest), "returned", "failed"
  args,                \* the arguments of each invocation
  provider, model, messages, options,   \* callAI's locals
  payload,             \* the payload handed to makeRequest
  formatCalls,         \* calls of config.formatPayload in this invocation
  transportCalls,      \* calls of makeRequest in this invocation
  event,               \* the event that ended this invocation's request
  result,              \* the value callAI returned
  error,               \* the Error callAI threw
  request,             \* one makeRequest call on its own: its promise, the events
                       \* its handlers have run for, what its caller's await saw
  thinking,            \* getThinkingConfig on its own: its arguments, how often it
                       \* has been called, what the last call returned
  formatting,          \* an adapter's formatPayload on its own: its arguments and
                       \* what the call left behind
  image                \* processImageContent / detectImageFormat on their own

vars == <<customModelsLoaded, models, apiKey, customFile, mergeCount, callsMade, pc, args,
          provider, model, messages, options, payload, formatCalls, transportCalls,
          event, result, error, request, thinking, formatting, image>>

\* the functions exercised on their own
aside == <<request, thinking, formatting, image>>

process == <<customModelsLoaded, models, mergeCount>>
locals == <<provider, model, messages, options>>

Args(form, prov, mdl, msgs, opts) ==
  [form |-> form, provider |-> prov, model |-> mdl, messages |-> msgs, options |-> opts]

NoArgs == Args("", "", "", <<>>, NoOptions)
NoEvent == [event |-> "none", status |-> 0, body |-> NoBody, text |-> <<>>]
NoResult == [text |-> UndefinedText, usage |-> UsageResult(0, 0, 0), model |-> "",
             cost |-> Cost(0, 0)]

\* the argument forms callAI tells apart by args.length and the types
ProviderOmitted == {"model,messages", "model,messages,options"}
ProviderGiven == {"provider,model,messages", "provider,model,messages,options"}

(* --------------------------- callAI ------------------------------------ *)
\* callAI throws: the invocation is over
Fail(c, err) ==
  /\ pc' = [pc EXCEPT ![c] = "failed"]
  /\ error' = [error EXCEPT ![c] = err]
  /\ UNCHANGED result

\* Lines 639-674, from NormalizeMessages to the call of makeRequest, run
\* without suspension.
Pipeline(c, prov, mdl, msgs, opts) ==
  LET normalized == NormalizeMessages(msgs)
      known == prov \in Providers
      modelConfig == Lookup(models[prov], mdl)
      fmt == formatPayload(prov, normalized, modelConfig.name, opts.maxTokens, opts)
  IN IF isVisionRequest(normalized) /\ ~supportsVision(prov, mdl) THEN
       /\ Fail(c, Error(VisionMessage(mdl)))
       /\ messages' = [messages EXCEPT ![c] = normalized]
       /\ UNCHANGED <<payload, formatCalls, transportCalls>>
     ELSE IF ~known THEN
       /\ Fail(c, Error(CatchMessage(prov, <<"Unknown provider: ", prov>>)))
       /\ messages' = [messages EXCEPT ![c] = normalized]
       /\ UNCHANGED <<payload, formatCalls, transportCalls>>
     ELSE IF apiKey[prov] = "" THEN
       /\ Fail(c, Error(CatchMessage(prov, MissingKeyMessage(prov))))
       /\ messages' = [messages EXCEPT ![c] = normalized]
       /\ UNCHANGED <<payload, formatCalls, transportCalls>>
     ELSE IF ~HasMember(models[prov], mdl) THEN
       /\ Fail(c, Error(CatchMessage(prov,
                  <<"Unknown model: ", mdl, " for provider: ", prov>>)))
       /\ messages' = [messages EXCEPT ![c] = normalized]
       /\ UNCHANGED <<payload, formatCalls, transportCalls>>
     ELSE IF fmt.threw THEN
       /\ Fail(c, Error(CatchMessage(prov, fmt.message)))
       /\ messages' = [messages EXCEPT ![c] = fmt.messages]
       /\ formatCalls' = [formatCalls EXCEPT ![c] = @ + 1]
       /\ UNCHANGED <<payload, transportCalls>>
     ELSE
       /\ pc' = [pc EXCEPT ![c] = "transport"]
       /\ messages' = [messages EXCEPT ![c] = fmt.messages]
       /\ payload' = [payload EXCEPT ![c] = fmt.payload]
       /\ formatCalls' = [formatCalls EXCEPT ![c] = @ + 1]
       /\ transportCalls' = [transportCalls EXCEPT ![c] = @ + 1]
       /\ UNCHANGED <<result, error>>

\* callAI(...args) up to its first suspension (lines 619-637, and on through
\* the pipeline when the custom models are loaded already)
Invoke(c, a) ==
  LET mdl == IF a.form = "model,messages,options" /\ a.model = "" THEN DefaultModel
             ELSE a.model
      prov == IF a.form \in ProviderOmitted THEN findProviderForModel(models, mdl)
              ELSE a.provider
      opts == IF a.form \in {"model,messages,options", "provider,model,messages,options"}
                THEN a.options ELSE NoOptions
  IN /\ pc[c] = "idle"
     /\ callsMade' = callsMade + 1
     /\ args' = [args EXCEPT ![c] = a]
     /\ UNCHANGED <<apiKey, customFile, aside, mergeCount, event>>
     /\ IF a.form \notin ProviderOmitted \cup ProviderGiven THEN
          /\ Fail(c, Error(InvalidArguments))
          /\ UNCHANGED <<customModelsLoaded, models, locals, payload, formatCalls,
                         transportCalls>>
        ELSE IF a.form \in ProviderOmitted /\ prov = NullProvider THEN
          /\ Fail(c, [message |-> <<"Unknown model: ", mdl, ". Available: ">>,
                      available |-> AllAliases(models)])
          /\ model' = [model EXCEPT ![c] = mdl]
          /\ UNCHANGED <<customModelsLoaded, models, provider, messages, options, payload,
                         formatCalls, transportCalls>>
        ELSE
          /\ provider' = [provider EXCEPT ![c] = prov]
          /\ model' = [model EXCEPT ![c] = mdl]
          /\ options' = [options EXCEPT ![c] = opts]
          /\ UNCHANGED models
          /\ IF customModelsLoaded THEN
               /\ UNCHANGED customModelsLoaded
               /\ Pipeline(c, prov, mdl, a.messages, opts)
             ELSE IF customFile = "absent" THEN
               \* loadCustomModels runs to its end without suspending
               /\ customModelsLoaded' = TRUE
               /\ pc' = [pc EXCEPT ![c] = "resume"]
               /\ messages' = [messages EXCEPT ![c] = a.messages]
               /\ UNCHANGED <<payload, formatCalls, transportCalls, result, error>>
             ELSE
               /\ pc' = [pc EXCEPT ![c] = "import"]
               /\ messages' = [messages EXCEPT ![c] = a.messages]
               /\ UNCHANGED <<customModelsLoaded, payload, formatCalls, transportCalls,
                              result, error>>

\* loadCustomModels wakes from await import(...): lines 44-53
ImportSettled(c) ==
  /\ pc[c] = "import"
  /\ IF customFile = "valid"
       THEN /\ models' = MergeCustom(models, CustomModels)
            /\ mergeCount' = mergeCount + 1
       ELSE IF customFile = "mergeThrows"
         \* the loop throws after its first provider; catch at line 50
         THEN /\ models' = MergeCustom(models, CustomModelsBeforeThrow)
              /\ mergeCount' = mergeCount + 1
       ELSE UNCHANGED <<models, mergeCount>>
  /\ customModelsLoaded' = TRUE
  /\ pc' = [pc EXCEPT ![c] = "resume"]
  /\ UNCHANGED <<apiKey, customFile, aside, callsMade, args, locals, payload, formatCalls,
                 transportCalls, event, result, error>>

\* callAI wakes from await loadCustomModels() (line 637)
Resume(c) ==
  /\ pc[c] = "resume"
  /\ Pipeline(c, provider[c], model[c], messages[c], options[c])
  /\ UNCHANGED <<customModelsLoaded, models, apiKey, customFile, aside, mergeCount, callsMade,
                 args, provider, model, options, event>>

CostTypeError == <<"Cannot read properties of undefined (reading 'in')">>

\* callAI wakes from await makeRequest(...): lines 674-696
TransportSettles(c, ev) ==
  LET timeout == OrDefault(options[c].timeout, DefaultTimeout)
      settled == makeRequest(ev, timeout)
      modelConfig == Lookup(models[provider[c]], model[c])
      extracted == extractResponse(provider[c], settled.data)
      rawUsage == RawUsage(provider[c], settled.data)
      normalizedUsage == normalizeUsage(provider[c], rawUsage, messages[c], extracted.text)
  IN /\ pc[c] = "transport"
     /\ event' = [event EXCEPT ![c] = ev]
     /\ IF ~settled.ok THEN
          Fail(c, Error(CatchMessage(provider[c], settled.message)))
        ELSE IF extracted.threw THEN
          Fail(c, Error(CatchMessage(provider[c], extracted.message)))
        ELSE IF modelConfig.cost = UndefinedCost THEN
          \* modelConfig.cost.in at line 680
          Fail(c, Error(CatchMessage(provider[c], CostTypeError)))
        ELSE
          /\ \E cost \in ComputeCost(normalizedUsage, modelConfig) :
                result' = [result EXCEPT ![c] =
                             [text |-> extracted.text, usage |-> normalizedUsage,
                              model |-> model[c], cost |-> cost]]
          /\ pc' = [pc EXCEPT ![c] = "returned"]
          /\ UNCHANGED error
     /\ UNCHANGED <<customModelsLoaded, models, apiKey, customFile, aside, mergeCount, callsMade,
                    args, locals, payload, formatCalls, transportCalls>>

\* the caller has its answer; the invocation's frame is gone
Return(c) ==
  /\ pc[c] \in {"returned", "failed"}
  /\ pc' = [pc EXCEPT ![c] = "idle"]
  /\ args' = [args EXCEPT ![c] = NoArgs]
  /\ provider' = [provider EXCEPT ![c] = ""]
  /\ model' = [model EXCEPT ![c] = ""]
  /\ messages' = [messages EXCEPT ![c] = <<>>]
  /\ options' = [options EXCEPT ![c] = NoOptions]
  /\ payload' = [payload EXCEPT ![c] = NoPayload]
  /\ formatCalls' = [formatCalls EXCEPT ![c] = 0]
  /\ transportCalls' = [transportCalls EXCEPT ![c] = 0]
  /\ event' = [event EXCEPT ![c] = NoEvent]
  /\ result' = [result EXCEPT ![c] = NoResult]
  /\ error' = [error EXCEPT ![c] = NoError]
  /\ UNCHANGED <<customModelsLoaded, models, apiKey, customFile, aside, mergeCount, callsMade>>

(* --------------------------- inputs ------------------------------------ *)
PngBytes == <<137, 80, 78, 71, 13, 10, 26, 10>>

HiMessages == <<Message("user", StringContent("hi"))>>
ImageMessages ==
  <<Message("user", ArrayContent(<<TextPart("look"), ImagePart(BareBase64(PngBytes))>>))>>
ImageUrlMessages == <<Message("user", ArrayContent(<<ImageUrlPart(HttpUrl)>>))>>
TurnsMessages ==
  <<Message("system", StringContent("be brief")),
    Message("user", ArrayContent(<<TextPart("a")>>)),
    Message("user", ArrayContent(<<TextPart("bc")>>))>>

TestMessages == {HiMessages, ImageMessages, ImageUrlMessages, TurnsMessages}

TestOptions ==
  {NoOptions,
   Options(undefined, undefined, ThinkStr("high"), undefined),
   Options(undefined, undefined, ThinkNum(2000), undefined)}

\* aliases for the forms without provider: one or two of every provider, a
\* custom alias of _models.js, an alias of no table, and a key that every
\* object inherits
TestAliases ==
  {"mistral-small", "ministral-8b", "claude-4s", "gpt-5", "grok-3m", "gemini-2.5p",
   "exa-3.5-32b", "gpt-6-turbo", "nope", "constructor"}

\* <<provider, model>> for the forms with provider
TestPairs ==
  {<<"openai", "gpt-6-turbo">>, <<"anthropic", "claude-3.7s">>, <<"together", "qw2-vl-72b">>,
   <<"grok", "grok-4">>, <<"openai", "4o-mini">>, <<"nowhere", "gpt-5">>}

TestArgs ==
  {Args("model,messages", "", a, m, NoOptions) : a \in TestAliases, m \in TestMessages}
  \cup {Args("model,messages,options", "", a, m, o) :
          a \in TestAliases, m \in TestMessages, o \in TestOptions \ {NoOptions}}
  \cup {Args("provider,model,messages", pm[1], pm[2], m, NoOptions) :
          pm \in TestPairs, m \in TestMessages}
  \cup {Args("provider,model,messages,options", pm[1], pm[2], m, o) :
          pm \in TestPairs, m \in TestMessages, o \in TestOptions \ {NoOptions}}
  \cup {Args("invalid", "", "mistral-small", <<>>, NoOptions)}

UsageOpenAI == Usage(3, 7, 10, undefined, undefined, undefined, undefined, undefined)
UsageAnthropic == Usage(undefined, undefined, undefined, 3, 7, undefined, undefined, undefined)
UsageGemini == Usage(undefined, undefined, undefined, undefined, undefined, 3, 7, 12)

TestResponses ==
  {Response("choices", Str("hello"), <<>>, NoUsage, NoUsage),
   Response("choices", Str("hello"), <<>>, UsageOpenAI, NoUsage),
   Response("content", Str("hello"), <<>>, UsageAnthropic, NoUsage),
   Response("candidates", UndefinedText, <<"hel", "lo">>, NoUsage, UsageGemini),
   Response("choices", UndefinedText, <<>>, NoUsage, NoUsage),
   NoData}

JsonBody(data) == Body("json", <<"{...}">>, <<>>, <<>>, data)
ErrorBody(text) == Body("json", <<"{...}">>, text, <<>>, NoData)

TestErrorBodies ==
  {ErrorBody(<<"Incorrect API key provided">>),
   ErrorBody(<<"Limit ", "4", "0", "1", "0", "0", ", used ", "4", "2", "9", "0", "0">>),
   Body("text", <<"<html>Bad Gateway</html>">>, <<>>, <<>>, NoData),
   NoBody}

TestStatuses == {401, 402, 429, 500}

TestEvents ==
  {EndEvent(200, JsonBody(r)) : r \in TestResponses}
  \cup {EndEvent(st, b) : st \in TestStatuses, b \in TestErrorBodies}
  \cup {EndEvent(200, NoBody), EndEvent(200, NullBody),
        ErrorEvent(<<"socket hang up">>), TimeoutEvent}

(* --------------------------- specification ----------------------------- *)
\* the process after module load: built-in tables, keys from the environment
\* (all set, or one provider's missing), _models.js in one of its states
InitProcess ==
  /\ customModelsLoaded = FALSE
  /\ models = BuiltinModels
  /\ \E missing \in Providers \cup {"none"} :
        apiKey = [p \in Providers |-> IF p = missing THEN "" ELSE "sk-key"]
  /\ customFile \in {"absent", "valid", "throws", "mergeThrows"}
  /\ mergeCount = 0
  /\ callsMade = 0

\* new Promise(...): pending, no handler has run, nothing awaited yet
NewRequest ==
  [promise |-> [settled |-> FALSE, outcome |-> Rejected(<<>>)],
   events |-> <<>>, observed |-> <<>>]

InitCalls ==
  /\ request = NewRequest
  /\ pc = [c \in Calls |-> "idle"]
  /\ args = [c \in Calls |-> NoArgs]
  /\ provider = [c \in Calls |-> ""]
  /\ model = [c \in Calls |-> ""]
  /\ messages = [c \in Calls |-> <<>>]
  /\ options = [c \in Calls |-> NoOptions]
  /\ payload = [c \in Calls |-> NoPayload]
  /\ formatCalls = [c \in Calls |-> 0]
  /\ transportCalls = [c \in Calls |-> 0]
  /\ event = [c \in Calls |-> NoEvent]
  /\ result = [c \in Calls |-> NoResult]
  /\ error = [c \in Calls |-> NoError]

\* getThinkingConfig not called
NoThinkingCall ==
  [provider |-> "", model |-> "", input |-> ThinkUndefined, thinkValue |-> ThinkUndefined,
   calls |-> 0, config |-> NoThinking]

\* formatPayload not called
NoFormatCall ==
  [provider |-> "", model |-> "", messages |-> <<>>, options |-> NoOptions, calls |-> 0,
   out |-> Formatted(NoPayload, <<>>)]

\* processImageContent and detectImageFormat not called; file names the
\* source file whose processImageContent is called
NoImageCall == [file |-> "callAI-tiny.js", input |-> NoUrl, calls |-> 0, out |-> NoUrl,
                mime |-> ""]

NoAside == thinking = NoThinkingCall /\ formatting = NoFormatCall /\ image = NoImageCall

Init == InitProcess /\ InitCalls /\ NoAside

\* one caller, one invocation after the other
Next ==
  \/ \E a \in TestArgs : callsMade < MaxCalls /\ Invoke(1, a)
  \/ ImportSettled(1)
  \/ Resume(1)
  \/ \E ev \in TestEvents : TransportSettles(1, ev)
  \/ Return(1)

Spec == Init /\ [][Next]_vars

\* invocations in flight together: each of them starts once, at any moment
ConcArgs ==
  {Args("model,messages", "", "mistral-small", HiMessages, NoOptions),
   Args("model,messages", "", "gpt-6-turbo", HiMessages, NoOptions),
   Args("provider,model,messages", "openai", "gpt-6-turbo", HiMessages, NoOptions)}

ConcEvents ==
  {EndEvent(200, JsonBody(Response("choices", Str("hello"), <<>>, NoUsage, NoUsage))),
   TimeoutEvent}

NextConc ==
  \E c \in Calls :
     \/ \E a \in ConcArgs : Invoke(c, a)
     \/ ImportSettled(c)
     \/ Resume(c)
     \/ \E ev \in ConcEvents : TransportSettles(c, ev)

SpecConc == Init /\ [][NextConc]_vars

\* one invocation against the built-in tables with every key set, answered
\* by a 200 response whose usage block ranges over the field names and
\* values the providers use
TokenValues == {undefined, 0, 1, 7, 1500}

UsageBlocks ==
  {Usage(p, c, t, undefined, undefined, undefined, undefined, undefined) :
     p \in TokenValues, c \in TokenValues, t \in {undefined, 0, 20}}
  \cup {Usage(undefined, undefined, t, i, o, undefined, undefined, undefined) :
          i \in TokenValues, o \in TokenValues, t \in {undefined, 20}}
  \cup {Usage(undefined, undefined, undefined, undefined, undefined, p, c, t) :
          p \in TokenValues, c \in TokenValues, t \in {undefined, 20}}

UsageShapes ==
  {<<"choices", Str("hello"), <<>> >>, <<"content", Str("hey"), <<>> >>,
   <<"candidates", UndefinedText, <<"hel", "lo">> >>, <<"choices", Str(""), <<>> >>}

UsageResponses ==
  {Response(sh[1], sh[2], sh[3], u, NoUsage) : sh \in UsageShapes, u \in UsageBlocks \cup {NoUsage}}
  \cup {Response(sh[1], sh[2], sh[3], NoUsage, u) : sh \in UsageShapes, u \in UsageBlocks}

UsageEvents == {EndEvent(200, JsonBody(r)) : r \in UsageResponses}

UsageAliases ==
  {"mistral-small", "claude-3.5h", "gemini-2fl", "magistral-small", "exa-3.5-32b", "grok-3m",
   "gpt-4om"}

UsageArgs ==
  {Args("model,messages", "", a, m, NoOptions) :
     a \in UsageAliases, m \in {HiMessages, TurnsMessages, ImageMessages}}

InitUsage ==
  /\ InitCalls
  /\ NoAside
  /\ customModelsLoaded = FALSE
  /\ models = BuiltinModels
  /\ apiKey = [p \in Providers |-> "sk-key"]
  /\ customFile = "absent"
  /\ mergeCount = 0
  /\ callsMade = 0

NextUsage ==
  \/ \E a \in UsageArgs : callsMade < 1 /\ Invoke(1, a)
  \/ Resume(1)
  \/ \E ev \in UsageEvents : TransportSettles(1, ev)

SpecUsage == InitUsage /\ [][NextUsage]_vars

(* ======================================================================= *)
(*                               properties                                *)
(* ======================================================================= *)

\* an invocation that got past argument resolution and past both awaits of
\* the custom-model load
PastLoad(c) == pc[c] \in {"transport", "returned", "failed"} /\ provider[c] # ""

\* the caller's message list holds a part of type 'image' or 'image_url'
HasImagePart(msgs) ==
  \E i \in 1..Len(msgs) :
     /\ msgs[i].content.kind = "array"
     /\ \E j \in 1..Len(msgs[i].content.parts) :
           msgs[i].content.parts[j].type \in {"image", "image_url"}

ProviderEnvVar ==
  [openai |-> "OPENAI_API_KEY", anthropic |-> "ANTHROPIC_API_KEY",
   gemini |-> "GEMINI_API_KEY", mistral |-> "MISTRAL_API_KEY",
   grok |-> "XAI_API_KEY", together |-> "TOGETHER_API_KEY"]

Names(message, piece) == \E i \in 1..Len(message) : message[i] = piece

\* the invocation failed on the missing credential of its provider, before
\* formatPayload and makeRequest
FailedOnCredential(c) ==
  /\ pc[c] = "failed"
  /\ Names(error[c].message, provider[c])
  /\ Names(error[c].message, ProviderEnvVar[provider[c]])
  /\ \A p \in Providers \ {provider[c]} : ~Names(error[c].message, ProviderEnvVar[p])
  /\ formatCalls[c] = 0
  /\ transportCalls[c] = 0

\* blocked by the vision gate, which precedes the credential check
BlockedByVisionGate(c) ==
  HasImagePart(args[c].messages) /\ ~supportsVision(provider[c], model[c])

\* C2 (amended): for each of the six providers, an invocation that passes
\* the vision gate with an empty apiKey fails with an error naming the
\* provider and the provider's own environment variable, and has called
\* neither formatPayload nor makeRequest.
C2_MissingCredential ==
  \A c \in Calls :
     (/\ PastLoad(c)
      /\ provider[c] \in Providers
      /\ apiKey[provider[c]] = ""
      /\ ~BlockedByVisionGate(c))
     => FailedOnCredential(c)

\* C2 (as stated): whenever the resolved provider's apiKey is empty the
\* invocation fails with the error naming the provider and its environment
\* variable, formatPayload and makeRequest not invoked.
C2_AnyRequest ==
  \A c \in Calls :
     (PastLoad(c) /\ provider[c] \in Providers /\ apiKey[provider[c]] = "")
     => FailedOnCredential(c)

\* C2 witness: grok's key is missing and the invocation failed naming XAI_API_KEY
C2_Witness ==
  \E c \in Calls :
     /\ pc[c] = "failed"
     /\ provider[c] = "grok"
     /\ apiKey["grok"] = ""
     /\ Names(error[c].message, "XAI_API_KEY")
     /\ transportCalls[c] = 0

\* C3: the merge loop of loadCustomModels runs at most once in the process,
\* whatever the interleaving of concurrent first invocations.
C3_MergeAtMostOnce == mergeCount <= 1

\* C4: with _models.js defining alias gpt-6-turbo under openai, every started
\* invocation callAI('gpt-6-turbo', messages[, options]) has resolved the
\* alias to openai and has not failed with 'Unknown model'.
C4_CustomAliasResolves ==
  \A c \in Calls :
     (/\ customFile = "valid"
      /\ pc[c] # "idle"
      /\ args[c].form \in ProviderOmitted
      /\ args[c].model = "gpt-6-turbo")
     => /\ provider[c] = "openai"
        /\ ~(pc[c] = "failed" /\ Names(error[c].message, "Unknown model: "))

AnthropicThinkingAliases == {"claude-3.7s", "claude-4s", "claude-4o", "claude-4.1o"}

\* C5: for a thinking-capable Anthropic alias and options.think = 'high', the
\* payload callAI hands to the transport has thinking = {type: 'enabled',
\* budget_tokens: 4096}.
C5_ThinkHighInPayload ==
  \A c \in Calls :
     (/\ pc[c] = "transport"
      /\ provider[c] = "anthropic"
      /\ model[c] \in AnthropicThinkingAliases
      /\ options[c].think = ThinkStr("high"))
     => /\ payload[c].thinking.kind = "enabled"
        /\ payload[c].thinking.budget = 4096

\* the least integer t with t >= n / 3.75
Ceil375(n) == CHOOSE t \in 0..n : 15 * t >= 4 * n /\ 15 * (t - 1) < 4 * n

RECURSIVE TextCharsOfParts(_)
TextCharsOfParts(parts) ==
  IF Len(parts) = 0 THEN 0
  ELSE (IF Head(parts).type \in {"text", "#string"} THEN Len(Head(parts).text) ELSE 0)
       + TextCharsOfParts(Tail(parts))

\* the characters of text the caller's prompt holds
RECURSIVE TextChars(_)
TextChars(msgs) ==
  IF Len(msgs) = 0 THEN 0
  ELSE (IF Head(msgs).content.kind = "string" THEN Len(Head(msgs).content.text)
        ELSE TextCharsOfParts(Head(msgs).content.parts))
       + TextChars(Tail(msgs))

\* the usage block callAI reads from the response that ended the request
WireUsage(c) ==
  IF provider[c] = "gemini" THEN event[c].body.data.usageMetadata
  ELSE event[c].body.data.usage

\* C6: when the response carries no usage block, the prompt (text only) has N
\* characters and the response text M, callAI returns prompt_tokens =
\* ceil(N/3.75), completion_tokens = ceil(M/3.75) and total_tokens =
\* prompt_tokens + completion_tokens.
C6_EstimatedUsage ==
  \A c \in Calls :
     (pc[c] = "returned" /\ ~WireUsage(c).present /\ ~HasImagePart(args[c].messages))
     => LET u == result[c].usage
        IN /\ u.prompt_tokens = Ceil375(TextChars(args[c].messages))
           /\ u.completion_tokens = Ceil375(Len(result[c].text.text))
           /\ u.total_tokens = u.prompt_tokens + u.completion_tokens

RECURSIVE ImageCountOfParts(_)
ImageCountOfParts(parts) ==
  IF Len(parts) = 0 THEN 0
  ELSE (IF Head(parts).type \in {"image", "image_url"} THEN 1 ELSE 0)
       + ImageCountOfParts(Tail(parts))

\* the image parts of a message list
RECURSIVE ImageCount(_)
ImageCount(msgs) ==
  IF Len(msgs) = 0 THEN 0
  ELSE (IF Head(msgs).content.kind = "array" THEN ImageCountOfParts(Head(msgs).content.parts)
        ELSE 0)
       + ImageCount(Tail(msgs))

\* the values a usage block holds under the given field names
Reported(block, fields) == {block[f] : f \in fields} \ {undefined}

\* C7: a returned invocation carries the character estimate exactly when the
\* response had no usage block (usageMetadata for gemini): then prompt_tokens
\* is ceil(chars / 3.75) over the messages normalizeUsage was handed, each
\* image part counting 1000, and completion_tokens is ceil(M / 3.75); with a
\* block present every count is a value of that block (0 when the block
\* lacks it) and the total is the block's or the sum of the two counts.
C7_EstimateIffNoBlock ==
  \A c \in Calls :
     pc[c] = "returned" =>
       LET raw == WireUsage(c)
           u == result[c].usage
       IN IF ~raw.present
            THEN /\ u.prompt_tokens
                      = Ceil375(TextChars(messages[c]) + 1000 * ImageCount(messages[c]))
                 /\ u.completion_tokens = Ceil375(Len(result[c].text.text))
          ELSE /\ u.prompt_tokens
                    \in Reported(raw, {"prompt_tokens", "input_tokens", "promptTokenCount"})
                        \cup {0}
               /\ u.completion_tokens
                    \in Reported(raw, {"completion_tokens", "output_tokens",
                                       "candidatesTokenCount"}) \cup {0}
               /\ u.total_tokens
                    \in Reported(raw, {"total_tokens", "totalTokenCount"})
                        \cup {u.prompt_tokens + u.completion_tokens}

\* an image prompt answered without a usage block (estimate 268 = ceil(1004 / 3.75))
C7_Witness ==
  \E c \in Calls :
     /\ pc[c] = "returned"
     /\ ~WireUsage(c).present
     /\ ImageCount(messages[c]) = 1
     /\ result[c].usage.prompt_tokens = 268

\* the total a usage block reports under the provider's own field name, if
\* it reports a positive one
ReportedTotal(prov, block) ==
  Reported(block, IF prov = "gemini" THEN {"totalTokenCount"} ELSE {"total_tokens"}) \ {0}

\* C8: for every provider, when the usage block is present total_tokens is
\* the total the block reports, and the sum of prompt_tokens and
\* completion_tokens only when the block reports none.
C8_ReportedTotalWins ==
  \A c \in Calls :
     (pc[c] = "returned" /\ WireUsage(c).present) =>
        LET u == result[c].usage
            reported == ReportedTotal(provider[c], WireUsage(c))
        IN IF reported # {} THEN u.total_tokens \in reported
           ELSE u.total_tokens = u.prompt_tokens + u.completion_tokens

Abs(x) == IF x < 0 THEN -x ELSE x

\* the rates of the resolved model, in thousandths of a dollar per million tokens
Rates(c) == models[provider[c]][model[c]].cost

\* C9: in every successful result cost.in and cost.out are the token counts
\* times the model's rates per million, rounded to the sixth decimal (within
\* half a millionth of the exact product), cost.total is their sum, and all
\* three are 0 when both rates are 0.
C9_CostRounded ==
  \A c \in Calls :
     pc[c] = "returned" =>
        LET u == result[c].usage
            cost == result[c].cost
        IN /\ Abs(1000 * cost.in - u.prompt_tokens * Rates(c).in) <= 500
           /\ Abs(1000 * cost.out - u.completion_tokens * Rates(c).out) <= 500
           /\ cost.total = cost.in + cost.out
           /\ (Rates(c).in = 0 /\ Rates(c).out = 0)
                 => (cost.in = 0 /\ cost.out = 0 /\ cost.total = 0)

\* a result whose input cost was rounded up to the next millionth
C9_Witness ==
  \E c \in Calls :
     /\ pc[c] = "returned"
     /\ (result[c].usage.prompt_tokens * Rates(c).in) % 1000 > 500
     /\ 1000 * result[c].cost.in > result[c].usage.prompt_tokens * Rates(c).in
     /\ result[c].cost.total = result[c].cost.in + result[c].cost.out

\* the message callAI owes to an upstream status
StatusMessage(status, prov) ==
  CASE status = 401 -> <<"Authentication failed for ", prov, ". Check your API key.">>
    [] status = 429 -> <<"Rate limit exceeded for ", prov, ". Try again later.">>
    [] status = 402 -> <<"Payment required for ", prov, ". Check account balance.">>

\* C10: when the upstream answers with status 401, 429 or 402, the invocation
\* fails with the authentication, rate-limit or payment message of that
\* status, naming the resolved provider.
C10_StatusDecidesMessage ==
  \A c \in Calls :
     (/\ pc[c] = "failed"
      /\ event[c].event = "end"
      /\ event[c].status \in {401, 429, 402})
     => error[c].message = StatusMessage(event[c].status, provider[c])

\* the failure was raised inside the try block of callAI (lines 650-686):
\* past argument resolution, the load and the vision gate
FailedInAdapterStage(c) ==
  pc[c] = "failed" /\ PastLoad(c) /\ ~BlockedByVisionGate(c)

\* the upstream answered this invocation with one of the given statuses
UpstreamStatus(c, statuses) == event[c].event = "end" /\ event[c].status \in statuses

GuidanceMessages(prov) == {StatusMessage(st, prov) : st \in {401, 429, 402}}

\* C11: a failure raised in the adapter stage that is not an upstream 401,
\* 429 or 402 response reaches the caller as '<provider> API call failed: '
\* followed by the original message, never as the authentication,
\* rate-limit or payment message.
C11_OtherFailuresWrapped ==
  \A c \in Calls :
     (FailedInAdapterStage(c) /\ ~UpstreamStatus(c, {401, 429, 402}))
     => /\ error[c].message \notin GuidanceMessages(provider[c])
        /\ Len(error[c].message) > 2
        /\ error[c].message[1] = provider[c]
        /\ error[c].message[2] = " API call failed: "
        /\ event[c].event \in {"timeout", "error"}
              => error[c].message
                   = <<provider[c], " API call failed: ">>
                     \o makeRequest(event[c], OrDefault(options[c].timeout, DefaultTimeout)).message

\* every check that precedes the transport call has passed and a payload
\* was built: arguments, provider, vision gate, credential, model, formatPayload
StagesSucceeded(c) ==
  /\ args[c].form \in ProviderOmitted \cup ProviderGiven
  /\ provider[c] \in Providers
  /\ ~BlockedByVisionGate(c)
  /\ apiKey[provider[c]] # ""
  /\ HasMember(models[provider[c]], model[c])
  /\ payload[c] # NoPayload

\* C12: an invocation calls makeRequest at most once: once when every stage
\* before the transport succeeded, never otherwise, and a transport failure
\* or timeout is followed by no second request.
C12_OneRequest ==
  \A c \in Calls :
     /\ transportCalls[c] \in {0, 1}
     /\ pc[c] # "idle" => (transportCalls[c] = 1 <=> StagesSucceeded(c))
     /\ (pc[c] = "failed" /\ event[c] # NoEvent) => transportCalls[c] = 1

\* an invocation that failed on the transport's timeout after its one request
C12_Witness ==
  \E c \in Calls :
     /\ pc[c] = "failed"
     /\ event[c] = TimeoutEvent
     /\ transportCalls[c] = 1

\* the canonical content of a caller's content: one text part for a string,
\* one empty text part for null/undefined, as many parts as items for an array
CanonicalOf(before, after) ==
  /\ after.kind = "array"
  /\ before.kind = "string" => after.parts = <<TextPart(before.text)>>
  /\ before.kind = "null" => after.parts = <<TextPart("")>>
  /\ before.kind = "array" =>
        /\ Len(after.parts) = Len(before.parts)
        /\ \A j \in 1..Len(before.parts) :
              after.parts[j].type
                = (IF before.parts[j].type = "#string" THEN "text" ELSE before.parts[j].type)

\* C13: after the normalization step of callAI (line 639) every message's
\* content is an ordered array of typed parts: a string has become one text
\* part, null/undefined one empty text part, an array keeps length and order.
C13_CanonicalContent ==
  \A c \in Calls :
     pc[c] # "idle" =>
        LET before == args[c].messages
            after == NormalizeMessages(before)
        IN /\ Len(after) = Len(before)
           /\ \A i \in 1..Len(before) : CanonicalOf(before[i].content, after[i].content)

\* the providers whose built-in table has the alias among its keys
Owners(alias) == {p \in Providers : alias \in DOMAIN BuiltinModels[p]}

\* C14: over the built-in tables every alias is a key of exactly one
\* provider's table and resolves to that provider, and a string that is the
\* key of no table resolves to null (the invocation fails, no provider set).
C14_ResolverExact ==
  /\ \A p \in Providers : \A a \in DOMAIN BuiltinModels[p] :
        Owners(a) = {p} /\ findProviderForModel(BuiltinModels, a) = p
  /\ \A c \in Calls :
        (models = BuiltinModels /\ pc[c] # "idle" /\ args[c].form \in ProviderOmitted)
        => IF Owners(model[c]) # {} THEN Owners(model[c]) = {provider[c]}
           ELSE provider[c] = "" /\ pc[c] = "failed"

\* the invocation failed at argument resolution with the 'Unknown model'
\* error that lists every alias of every table, and nothing after
\* resolution has run: no load, no normalization, no payload, no request
FailedUnknownModel(c) ==
  /\ pc[c] = "failed"
  /\ provider[c] = ""
  /\ error[c].message = <<"Unknown model: ", model[c], ". Available: ">>
  /\ error[c].available = UNION {DOMAIN models[p] : p \in Providers}
  /\ payload[c] = NoPayload
  /\ formatCalls[c] = 0
  /\ transportCalls[c] = 0
  /\ callsMade = 1 => (~customModelsLoaded /\ mergeCount = 0 /\ models = BuiltinModels)

\* C15, the resolver's null: with the provider omitted, an alias for which
\* the resolver returns null makes callAI fail with the 'Unknown model' error
\* listing every alias of every provider, before loading, normalization,
\* payload building and transport.
C15_UnknownModelFails ==
  \A c \in Calls :
     (/\ pc[c] # "idle"
      /\ args[c].form \in ProviderOmitted
      /\ findProviderForModel(models, model[c]) = NullProvider)
     => FailedUnknownModel(c)

\* C15: with the provider omitted, an unknown alias (a key of no provider's
\* table) makes callAI fail with that error, before loading, normalization,
\* payload building and transport.
C15_NoTableHasAlias ==
  \A c \in Calls :
     (/\ pc[c] # "idle"
      /\ args[c].form \in ProviderOmitted
      /\ \A p \in Providers : model[c] \notin DOMAIN models[p])
     => FailedUnknownModel(c)

\* the first invocation of the process, with an alias of no table and an
\* image to normalize, failed with the listing while nothing was loaded
C15_Witness ==
  \E c \in Calls :
     /\ pc[c] = "failed"
     /\ args[c].form = "model,messages,options"
     /\ args[c].model = "nope"
     /\ args[c].messages = ImageMessages
     /\ error[c].available = AllAliases(BuiltinModels)
     /\ ~customModelsLoaded

\* the invocation is past loadCustomModels
LoadDone(c) == pc[c] \in {"resume", "transport", "returned"} \/ (pc[c] = "failed" /\ PastLoad(c))

\* C16, the part that holds: if importing or merging _models.js throws, the
\* load completes without throwing, customModelsLoaded is true, the tables
\* equal the built-in ones when it was the import that threw, and the
\* invocation goes on: a failure, if any, is one of a later stage.
C16_LoadFailureTolerated ==
  \A c \in Calls :
     (customFile \in {"throws", "mergeThrows"} /\ LoadDone(c))
     => /\ customModelsLoaded
        /\ customFile = "throws" => models = BuiltinModels
        /\ pc[c] = "failed" => (transportCalls[c] = 1 \/ FailedInAdapterStage(c)
                                 \/ error[c].message = VisionMessage(model[c]))

\* C16: if importing or merging _models.js throws, the provider/model tables
\* are equal to the built-in tables and customModelsLoaded is true once the
\* load is over.
C16_TablesEqualBuiltin ==
  \A c \in Calls :
     (customFile \in {"throws", "mergeThrows"} /\ LoadDone(c))
     => customModelsLoaded /\ models = BuiltinModels

\* _models.js threw on import and the invocation that triggered the load
\* normalized an image, built its payload and sent its request
C16_Witness ==
  \E c \in Calls :
     /\ customFile = "throws"
     /\ callsMade = 1
     /\ pc[c] = "transport"
     /\ args[c].messages = ImageMessages
     /\ messages[c] = NormalizeMessages(ImageMessages)
     /\ customModelsLoaded
     /\ models = BuiltinModels

(* --------------------------- one request ------------------------------- *)
\* bodies and events of a single makeRequest call
RequestBodies ==
  {JsonBody(Response("choices", Str("hello"), <<>>, NoUsage, NoUsage)),
   ErrorBody(<<"Incorrect API key provided">>),
   Body("json", <<"{...}">>, <<>>, <<"not found">>, NoData),
   NullBody,
   Body("text", <<"<html>Bad Gateway</html>">>, <<>>, <<>>, NoData),
   Body("blank", <<" \n">>, <<>>, <<>>, NoData),
   NoBody}

RequestStatuses == {200, 204, 299, 199, 300, 401, 500}

\* the handler of an event runs: what it passes to resolve or reject settles
\* the promise if nothing has settled it
Handle(ev) ==
  /\ \A i \in 1..Len(request.events) : request.events[i].event # ev.event
  /\ request' = [request EXCEPT !.promise = Settle(@, makeRequest(ev, DefaultTimeout)),
                                !.events = Append(@, ev)]

\* res.on('end', ...)
ResponseEnd(status, body) == Handle(EndEvent(status, body))

\* req.on('error', reject)
RequestError == Handle(ErrorEvent(<<"socket hang up">>))

\* req.on('timeout', ...)
RequestTimeout == Handle(TimeoutEvent)

\* the continuation of the caller's await runs, once, with the promise's outcome
Observe ==
  /\ request.promise.settled
  /\ request.observed = <<>>
  /\ request' = [request EXCEPT !.observed = <<request.promise.outcome>>]

callAIVars == <<customModelsLoaded, models, apiKey, customFile, mergeCount, callsMade, pc,
                args, provider, model, messages, options, payload, formatCalls,
                transportCalls, event, result, error>>

NextRequest ==
  \/ \E st \in RequestStatuses, b \in RequestBodies :
        ResponseEnd(st, b) /\ UNCHANGED <<callAIVars, thinking, formatting, image>>
  \/ RequestError /\ UNCHANGED <<callAIVars, thinking, formatting, image>>
  \/ RequestTimeout /\ UNCHANGED <<callAIVars, thinking, formatting, image>>
  \/ Observe /\ UNCHANGED <<callAIVars, thinking, formatting, image>>

\* an awaited promise that has settled always gets its continuation run
SpecRequest == InitUsage /\ [][NextRequest]_vars /\ WF_vars(Observe /\ UNCHANGED <<callAIVars, thinking, formatting, image>>)

Is2xx(status) == status >= 200 /\ status < 300

\* the outcome the first event calls for, as the contract of makeRequest
\* words it
OutcomeAgrees(first, outcome) ==
  IF first.event # "end" THEN ~outcome.ok
  ELSE
    /\ outcome.ok <=> (Is2xx(first.status) /\ first.body.kind = "json")
    /\ outcome.ok => outcome.data = first.body.data
    /\ first.body.kind \in {"empty", "blank"} =>
          /\ ~outcome.ok
          /\ outcome.message[1] = "Empty response from API (status: "
    /\ first.body.kind = "text" =>
          /\ ~outcome.ok
          /\ outcome.message[1] = "Failed to parse JSON response. Status: "
    /\ (first.body.kind = "json" /\ ~Is2xx(first.status)) =>
          /\ ~outcome.ok
          /\ Includes(outcome.message, Digits(first.status))

RequestSafe ==
  /\ request.events # <<>> =>
        /\ request.promise.settled
        /\ OutcomeAgrees(request.events[1], request.promise.outcome)
  /\ Len(request.observed) <= 1
  /\ request.observed # <<>> =>
        /\ request.events # <<>>
        /\ request.observed[1] = request.promise.outcome

\* C17: makeRequest resolves with the parsed body exactly when the status is
\* 2xx and the body is non-empty valid JSON; an empty or whitespace-only body
\* rejects with 'Empty response' whatever the status, a non-JSON body with
\* 'Failed to parse JSON', a non-2xx JSON body with an error carrying the
\* status code; and in whatever order the response's end, the request's
\* error and its timeout happen, the caller observes exactly one outcome,
\* that of the first of them.
C17_OneOutcome ==
  /\ []RequestSafe
  /\ (request.events # <<>>) ~> (Len(request.observed) = 1)

\* the timeout came first, the error of the destroyed request and a late
\* 200 response followed, and the caller saw the timeout rejection only
C17_Witness ==
  /\ Len(request.events) = 3
  /\ request.events[1] = TimeoutEvent
  /\ request.events[2].event = "error"
  /\ request.events[3].status = 200
  /\ request.events[3].body.kind = "json"
  /\ request.observed = <<makeRequest(TimeoutEvent, DefaultTimeout)>>

(* --------------------------- getThinkingConfig ------------------------- *)
\* how many times one think value is passed through getThinkingConfig
MaxThinkCalls == 3

\* every pair declared thinking-capable, aliases that are not, and the wire
\* names of thinking-capable aliases
ThinkPairs ==
  {<<p, a>> \in (DOMAIN THINKING_MODELS) \X AllAliases(BuiltinModels) :
      a \in THINKING_MODELS[p]}
  \cup {<<"openai", "gpt-4.1">>, <<"anthropic", "claude-3.5h">>, <<"gemini", "gemini-2f">>,
        <<"mistral", "mistral-small">>}
  \cup {<<"openai", "o3-mini">>, <<"openai", "gpt-5-mini">>, <<"grok", "grok-4-latest">>,
        <<"anthropic", "claude-sonnet-4-20250514">>}

ThinkNumbers ==
  {0, 1, 511, 512, 513, 1023, 1024, 1025, 2048, 8011, 8012, 8013, 24575, 24576, 24577, 100000}

ThinkValues ==
  {ThinkNum(n) : n \in ThinkNumbers}
  \cup {ThinkStr(l) : l \in {"low", "medium", "high", "max"}}
  \cup {ThinkBool(TRUE), ThinkBool(FALSE), ThinkUndefined}

InitThink ==
  /\ InitCalls
  /\ formatting = NoFormatCall
  /\ image = NoImageCall
  /\ customModelsLoaded = FALSE
  /\ models = BuiltinModels
  /\ apiKey = [p \in Providers |-> "sk-key"]
  /\ customFile = "absent"
  /\ mergeCount = 0
  /\ callsMade = 0
  /\ \E pa \in ThinkPairs, t \in ThinkValues :
        thinking = [NoThinkingCall EXCEPT !.provider = pa[1], !.model = pa[2],
                                          !.input = t, !.thinkValue = t]

\* getThinkingConfig(provider, model, thinkValue)
CallGetThinkingConfig ==
  /\ thinking.calls = 0
  /\ thinking' = [thinking EXCEPT
        !.calls = 1,
        !.config = getThinkingConfig(thinking.provider, thinking.model, thinking.thinkValue)]

\* the budget a call returned is passed in again as the think value
CallWithReturnedBudget ==
  /\ thinking.calls \in 1..(MaxThinkCalls - 1)
  /\ thinking.config.kind \in {"thinkingBudget", "enabled"}
  /\ LET again == ThinkNum(thinking.config.budget) IN
       thinking' = [thinking EXCEPT
          !.calls = @ + 1,
          !.thinkValue = again,
          !.config = getThinkingConfig(thinking.provider, thinking.model, again)]

NextThink ==
  \/ CallGetThinkingConfig /\ UNCHANGED <<callAIVars, request, formatting, image>>
  \/ CallWithReturnedBudget /\ UNCHANGED <<callAIVars, request, formatting, image>>

SpecThink == InitThink /\ [][NextThink]_vars

\* the limits the claim gives for each budget-style provider
BudgetFloor(prov) == IF prov = "gemini" THEN 512 ELSE 1024
BudgetCeiling(prov) == IF prov = "gemini" THEN 24576 ELSE 8012

BudgetShape(prov) == IF prov = "gemini" THEN "thinkingBudget" ELSE "enabled"

\* C18: for a thinking-capable alias of gemini or anthropic and a positive
\* integer think value b, getThinkingConfig returns the budget
\* min(ceiling, max(floor, b)) with [512, 24576] for gemini and [1024, 8012]
\* for anthropic: b in range comes back unchanged, floor - 1 gives floor,
\* ceiling + 1 gives ceiling, and passing the returned budget in again
\* returns it unchanged.
C18_BudgetClamped ==
  LET prov == thinking.provider
      b == thinking.input.n
      lo == BudgetFloor(prov)
      hi == BudgetCeiling(prov)
      want == IF b < lo THEN lo ELSE IF b > hi THEN hi ELSE b
  IN (/\ thinking.calls >= 1
      /\ prov \in {"gemini", "anthropic"}
      /\ thinking.model \in THINKING_MODELS[prov]
      /\ thinking.input.k = "number"
      /\ b > 0)
     => /\ thinking.config.kind = BudgetShape(prov)
        /\ thinking.config.budget = want
        /\ thinking.calls >= 2 => thinking.config.budget = thinking.thinkValue.n

\* anthropic's ceiling + 1 was clamped to 8012 and 8012, passed in again,
\* came back as 8012
C18_Witness ==
  /\ thinking.provider = "anthropic"
  /\ thinking.model = "claude-4s"
  /\ thinking.input = ThinkNum(8013)
  /\ thinking.calls = 2
  /\ thinking.thinkValue = ThinkNum(8012)
  /\ thinking.config.budget = 8012

\* C20: for every pair of THINKING_MODELS of an effort-style provider (openai,
\* grok), getThinkingConfig returns reasoning_effort equal to the level for
\* think 'low', 'medium' and 'high', and 'medium' for think = true.
C20_EffortLevels ==
  (/\ thinking.calls = 1
   /\ thinking.provider \in {"openai", "grok"}
   /\ thinking.model \in THINKING_MODELS[thinking.provider])
  => /\ thinking.input \in {ThinkStr("low"), ThinkStr("medium"), ThinkStr("high")}
          => thinking.config = Effort(thinking.input.s)
     /\ thinking.input = ThinkBool(TRUE) => thinking.config = Effort("medium")

\* the invocation asks an effort-style thinking alias for a numeric budget
\* and nothing before formatPayload stops it
NumericThinkOnEffortAlias(c) ==
  /\ pc[c] \in {"transport", "returned", "failed"}
  /\ provider[c] \in {"openai", "grok"}
  /\ model[c] \in THINKING_MODELS[provider[c]]
  /\ options[c].think.k = "number"
  /\ options[c].think.n > 0
  /\ apiKey[provider[c]] # ""
  /\ ~BlockedByVisionGate(c)

\* the error names the symbolic values the provider allows
NamesAllowedLevels(message) ==
  \E i \in 1..Len(message) :
     message[i] \in {" only supports think: 'low', 'medium', or 'high', not '",
                     "Grok models only support think: 'low' or 'high', not '"}

\* C19: an invocation that targets grok-3m, grok-4, gpt-o3m, gpt-5, gpt-5m or
\* gpt-5n with a positive numeric think value fails with the error naming
\* the allowed symbolic values, and no transport call is made.
C19_NumericThinkRejected ==
  \A c \in Calls :
     NumericThinkOnEffortAlias(c)
     => /\ pc[c] = "failed"
        /\ transportCalls[c] = 0
        /\ NamesAllowedLevels(error[c].message)

\* C19, the aliases for which it holds: the wire name of gpt-5 is the alias
\* itself, and a numeric think value fails the invocation before transport
C19_Gpt5NumericThinkRejected ==
  \A c \in Calls :
     (NumericThinkOnEffortAlias(c) /\ model[c] = "gpt-5")
     => /\ pc[c] = "failed"
        /\ transportCalls[c] = 0
        /\ NamesAllowedLevels(error[c].message)

\* callAI('gpt-5', ..., { think: 2000 }) has failed in formatPayload
C19_Gpt5Witness ==
  \E c \in Calls : NumericThinkOnEffortAlias(c) /\ model[c] = "gpt-5" /\ pc[c] = "failed"

(* --------------------------- formatPayload ----------------------------- *)
\* how long the message lists handed to an adapter get
MaxMessages == 3

FormatPool ==
  {Message("system", StringContent("be brief")),
   Message("system", StringContent("")),
   Message("system", ArrayContent(<<TextPart("be brief")>>)),
   Message("user", StringContent("hi")),
   Message("user", ArrayContent(<<TextPart("a")>>)),
   Message("user", ArrayContent(<<TextPart("b"), TextPart("c")>>)),
   Message("user", ArrayContent(<<TextPart("look"), ImagePart(BareBase64(PngBytes))>>)),
   Message("user", NullContent),
   Message("assistant", StringContent("ok")),
   Message("assistant", ArrayContent(<<TextPart("d")>>)),
   Message("tool", StringContent("42"))}

FormatMessages == UNION {[1..n -> FormatPool] : n \in 0..MaxMessages}

\* a provider and the wire name of one of its models
FormatPairs ==
  {<<"openai", "gpt-4.1">>, <<"openai", "gpt-4o-mini">>, <<"openai", "gpt-5">>,
   <<"openai", "gpt-5-nano">>, <<"openai", "o3-mini">>,
   <<"anthropic", "claude-sonnet-4-20250514">>, <<"mistral", "mistral-small-latest">>,
   <<"grok", "grok-4-latest">>, <<"gemini", "gemini-2.5-pro">>,
   <<"together", "Qwen/QwQ-32B">>}

\* maxTokens, temperature (tenths), think
FormatOptions ==
  {Options(mt, t, th, undefined) :
     mt \in {undefined, 0, 1, 100}, t \in {undefined, 0, 5, 10, 20},
     th \in {ThinkUndefined, ThinkStr("high"), ThinkNum(2000)}}

InitFormat ==
  /\ InitCalls
  /\ customModelsLoaded = FALSE
  /\ models = BuiltinModels
  /\ apiKey = [p \in Providers |-> "sk-key"]
  /\ customFile = "absent"
  /\ mergeCount = 0
  /\ callsMade = 0
  /\ thinking = NoThinkingCall
  /\ image = NoImageCall
  /\ \E pm \in FormatPairs :
        \/ \E msgs \in FormatMessages :
              formatting = [NoFormatCall EXCEPT !.provider = pm[1], !.model = pm[2],
                                                !.messages = msgs]
        \/ \E o \in FormatOptions :
              formatting = [NoFormatCall EXCEPT !.provider = pm[1], !.model = pm[2],
                                                !.messages = HiMessages, !.options = o]

\* config.formatPayload(messages, modelConfig.name, options.maxTokens, options)
CallFormatPayload ==
  /\ formatting.calls = 0
  /\ formatting' = [formatting EXCEPT
        !.calls = 1,
        !.out = formatPayload(formatting.provider, formatting.messages, formatting.model,
                              formatting.options.maxTokens, formatting.options)]
  /\ UNCHANGED <<callAIVars, request, thinking, image>>

NextFormat == CallFormatPayload

SpecFormat == InitFormat /\ [][NextFormat]_vars

HasRole(msgs, roles) == \E i \in 1..Len(msgs) : msgs[i].role \in roles

\* the turns of the payload: messages, or contents for gemini
Turns(prov, pl) == IF prov = "gemini" THEN pl.contents ELSE pl.messages

\* the separate system field: system, or system_instruction for gemini
SystemField(prov, pl) == IF prov = "gemini" THEN pl.system_instruction ELSE pl.system

\* formatPayload of anthropic or gemini has returned for a list with a
\* system message and no user/assistant turn
SystemOnlyFormatted ==
  /\ formatting.calls = 1
  /\ formatting.provider \in {"anthropic", "gemini"}
  /\ HasRole(formatting.messages, {"system"})
  /\ ~HasRole(formatting.messages, {"user", "assistant"})
  /\ ~formatting.out.threw

\* one user turn that carries the text and no separate system field
OneUserTurnCarrying(prov, pl, text) ==
  /\ Len(Turns(prov, pl)) = 1
  /\ Turns(prov, pl)[1].role = "user"
  /\ IF prov = "gemini" THEN Turns(prov, pl)[1].parts = <<GeminiText(text)>>
     ELSE Turns(prov, pl)[1].content = StringContent("[SYSTEM INSTRUCTIONS]" \o text)
  /\ SystemField(prov, pl) = NullContent

\* C21: for anthropic and gemini, a message list with a system message and
\* no user/assistant turn gives a payload with exactly one user turn that
\* carries the system text and without the separate system field; the
\* payload never has zero turns.
C21_SystemOnlySynthesized ==
  SystemOnlyFormatted =>
     LET prov == formatting.provider
         pl == formatting.out.payload
         sys == LastSystem(formatting.messages)
     IN /\ Len(Turns(prov, pl)) > 0
        /\ sys.kind = "string" => OneUserTurnCarrying(prov, pl, sys.text)

\* C21, the lists for which it holds: the last system message is a non-empty
\* string
C21_NonEmptySystemSynthesized ==
  (SystemOnlyFormatted /\ LastSystem(formatting.messages).kind = "string"
     /\ LastSystem(formatting.messages).text # "") =>
     OneUserTurnCarrying(formatting.provider, formatting.out.payload,
                         LastSystem(formatting.messages).text)

\* gemini has synthesized the user turn for a lone system message
C21_SynthesizedWitness ==
  /\ SystemOnlyFormatted
  /\ formatting.provider = "gemini"
  /\ formatting.messages = <<Message("system", StringContent("be brief"))>>
  /\ formatting.out.payload.contents = <<[role |-> "user", parts |-> <<GeminiText("be brief")>>]>>

\* the turns gemini keeps: user and assistant messages whose content is a
\* string or an array
RECURSIVE KeptTurns(_)
KeptTurns(msgs) ==
  IF Len(msgs) = 0 THEN <<>>
  ELSE IF Head(msgs).role \in {"user", "assistant"} /\ Head(msgs).content.kind # "null"
    THEN <<Head(msgs)>> \o KeptTurns(Tail(msgs))
  ELSE KeptTurns(Tail(msgs))

\* the parts of one kept turn
PartsOf(msg, isVision) ==
  IF msg.content.kind = "string" THEN <<GeminiText(msg.content.text)>>
  ELSE IF isVision
    THEN [j \in 1..Len(msg.content.parts) |-> GeminiPart(msg.content.parts[j])]
  ELSE msg.content.parts

\* one entry per run of same-role turns, its parts those of the run in order
RECURSIVE MergedRuns(_, _)
MergedRuns(turns, isVision) ==
  IF Len(turns) = 0 THEN <<>>
  ELSE LET rest == MergedRuns(Tail(turns), isVision)
           role == IF Head(turns).role = "assistant" THEN "model" ELSE "user"
           parts == PartsOf(Head(turns), isVision)
       IN IF Len(turns) > 1 /\ turns[2].role = Head(turns).role
            THEN <<[role |-> role, parts |-> parts \o rest[1].parts]>> \o Tail(rest)
          ELSE <<[role |-> role, parts |-> parts]>> \o rest

\* C22: the contents array the gemini adapter emits never has two adjacent
\* entries with the same role; assistant turns carry the role 'model'; every
\* run of consecutive same-role turns, system and skipped messages dropped,
\* is one entry whose parts are the parts of the run's turns in input order.
C22_GeminiRunsMerged ==
  (formatting.calls = 1 /\ formatting.provider = "gemini" /\ ~formatting.out.threw) =>
     LET contents == formatting.out.payload.contents
         kept == KeptTurns(formatting.messages)
     IN /\ \A k \in 1..(Len(contents) - 1) : contents[k].role # contents[k + 1].role
        /\ \A k \in 1..Len(contents) : contents[k].role \in {"user", "model"}
        /\ kept # <<>> => contents = MergedRuns(kept, isVisionRequest(formatting.messages))

\* two user turns around a system message became one entry of three parts,
\* followed by the assistant's as 'model'
C22_Witness ==
  /\ formatting.calls = 1
  /\ formatting.provider = "gemini"
  /\ formatting.messages = <<Message("user", StringContent("hi")),
                             Message("user", ArrayContent(<<TextPart("b"), TextPart("c")>>)),
                             Message("assistant", StringContent("ok"))>>
  /\ formatting.out.payload.contents =
        <<[role |-> "user", parts |-> <<GeminiText("hi"), TextPart("b"), TextPart("c")>>],
          [role |-> "model", parts |-> <<GeminiText("ok")>>]>>

\* C23: formatPayload leaves its input untouched: after the call the message
\* list passed in and every message's content array have the length and the
\* elements they had before, for every adapter.
C23_InputUntouched ==
  formatting.calls = 1 => formatting.out.messages = formatting.messages

\* C23, the adapters for which it holds: all but gemini
C23_InputUntouchedButGemini ==
  (formatting.calls = 1 /\ formatting.provider # "gemini")
     => formatting.out.messages = formatting.messages

\* anthropic.formatPayload has returned for two consecutive user turns with
\* array contents, which are as they were
C23_ButGeminiWitness ==
  /\ formatting.calls = 1
  /\ formatting.provider = "anthropic"
  /\ formatting.messages = <<Message("user", ArrayContent(<<TextPart("a")>>)),
                             Message("user", ArrayContent(<<TextPart("b"), TextPart("c")>>))>>
  /\ ~formatting.out.threw
  /\ formatting.out.messages = formatting.messages

\* C24: every payload the openai adapter builds carries exactly one of
\* max_tokens and max_completion_tokens: for a wire name of the reasoning
\* family max_completion_tokens with temperature 1 whatever the caller gave,
\* for every other wire name max_tokens and no reasoning_effort.
C24_OneTokenLimitField ==
  (formatting.calls = 1 /\ formatting.provider = "openai" /\ ~formatting.out.threw) =>
     LET pl == formatting.out.payload
     IN /\ (pl.max_tokens = undefined) # (pl.max_completion_tokens = undefined)
        /\ IF formatting.model \in {"o3", "o4", "o3-mini", "o4-mini", "gpt-5", "gpt-5-mini",
                                    "gpt-5-nano"}
             THEN pl.max_completion_tokens # undefined /\ pl.temperature = 10
           ELSE pl.max_tokens # undefined /\ pl.reasoning_effort = ""

\* gpt-5-nano asked for temperature 0.5 and 100 tokens: the payload has
\* max_completion_tokens 100 and temperature 1
C24_Witness ==
  /\ formatting.calls = 1
  /\ formatting.provider = "openai"
  /\ formatting.model = "gpt-5-nano"
  /\ formatting.options.temperature = 5
  /\ formatting.options.maxTokens = 100
  /\ formatting.out.payload.max_completion_tokens = 100
  /\ formatting.out.payload.max_tokens = undefined
  /\ formatting.out.payload.temperature = 10

\* the token limit of a payload, under the name its provider gives it
TokenLimit(prov, pl) ==
  IF prov = "gemini" THEN pl.maxOutputTokens
  ELSE IF pl.max_completion_tokens # undefined THEN pl.max_completion_tokens
  ELSE pl.max_tokens

\* an adapter has built a payload from options in the documented range, for
\* a model outside the OpenAI reasoning family
BuiltFromOptions ==
  /\ formatting.calls = 1
  /\ ~formatting.out.threw
  /\ formatting.options.maxTokens # 0
  /\ ~(formatting.provider = "openai" /\ formatting.model \in ReasoningFamily)

\* C25: temperature 0.7 and maxTokens 4096 are in the payload exactly when
\* the option is unset; every temperature the caller supplies, 0 included,
\* and every maxTokens reach the wire payload unchanged, for every provider.
C25_OptionsReachPayload ==
  BuiltFromOptions =>
     LET pl == formatting.out.payload
         o == formatting.options
     IN /\ pl.temperature = IF o.temperature = undefined THEN DefaultTemperature
                            ELSE o.temperature
        /\ TokenLimit(formatting.provider, pl) =
              IF o.maxTokens = undefined THEN DefaultMaxTokens ELSE o.maxTokens

\* C25, the part that holds: maxTokens for every provider, and a temperature
\* other than 0 for every provider but anthropic
C25_NonZeroOptionsReachPayload ==
  BuiltFromOptions =>
     LET pl == formatting.out.payload
         o == formatting.options
     IN /\ (formatting.provider # "anthropic" /\ o.temperature # 0) =>
              pl.temperature = IF o.temperature = undefined THEN DefaultTemperature
                               ELSE o.temperature
        /\ TokenLimit(formatting.provider, pl) =
              IF o.maxTokens = undefined THEN DefaultMaxTokens ELSE o.maxTokens

\* mistral was asked for temperature 2 and 100 tokens and its payload has them
C25_NonZeroWitness ==
  /\ BuiltFromOptions
  /\ formatting.provider = "mistral"
  /\ formatting.options.temperature = 20
  /\ formatting.options.maxTokens = 100
  /\ formatting.out.payload.temperature = 20
  /\ formatting.out.payload.max_tokens = 100

\* extractResponse has run on the parsed body of a 2xx response
Extracting(c) ==
  /\ pc[c] \in {"returned", "failed"}
  /\ event[c].event = "end"
  /\ Is2xx(event[c].status)
  /\ event[c].body.kind = "json"

\* the message is that of a property read on undefined or null
PropertyAccessError(message) ==
  \E i \in 1..Len(message) :
     message[i] \in {"Cannot read properties of undefined (reading '",
                     "Cannot read properties of null (reading '"}

\* C26: for every adapter and every parsed response, extractResponse returns
\* a string or fails with the adapter's response-shape error: the text of
\* every successful result is a string, and no invocation fails with a
\* property-access error of extractResponse.
C26_TextIsString ==
  \A c \in Calls :
     Extracting(c)
     => /\ pc[c] = "returned" => result[c].text.kind = "string"
        /\ pc[c] = "failed" =>
              (event[c].body.data # NullData => ~PropertyAccessError(error[c].message))

\* C26, the adapters for which it holds when the body is a JSON object:
\* openai, mistral, grok and gemini
C26_TextIsStringOrEmpty ==
  \A c \in Calls :
     (Extracting(c) /\ provider[c] \in {"openai", "mistral", "grok", "gemini"})
     => /\ pc[c] = "returned" => result[c].text.kind = "string"
        /\ pc[c] = "failed" =>
              (event[c].body.data # NullData => ~PropertyAccessError(error[c].message))

\* gemini got a 200 body without candidates and failed with its own error
C26_GeminiWitness ==
  \E c \in Calls :
     /\ Extracting(c)
     /\ provider[c] = "gemini"
     /\ event[c].body.data = NoData
     /\ pc[c] = "failed"
     /\ error[c].message = <<"gemini", " API call failed: ", "Invalid Gemini response structure">>

(* --------------------------- images ------------------------------------ *)
\* how many times a content is passed through processImageContent
MaxImageCalls == 2

\* files of 14 bytes: JPEG, PNG, WebP, a RIFF that is not WebP (WAVE), GIF,
\* BMP, zeros
ImageFiles ==
  {<<255, 216, 255, 224, 0, 16, 74, 70, 73, 70, 0, 1, 1, 0>>,
   <<137, 80, 78, 71, 13, 10, 26, 10, 0, 0, 0, 13, 73, 72>>,
   <<82, 73, 70, 70, 36, 0, 0, 0, 87, 69, 66, 80, 86, 80>>,
   <<82, 73, 70, 70, 36, 0, 0, 0, 87, 65, 86, 69, 102, 109>>,
   <<71, 73, 70, 56, 57, 97, 1, 0, 1, 0, 0, 0, 0, 0>>,
   <<66, 77, 70, 0, 0, 0, 0, 0, 0, 0, 54, 0, 0, 0>>,
   <<0, 0, 0, 0, 0, 0, 0, 0, 0, 0, 0, 0, 0, 0>>}

\* every prefix of every file, the empty sequence included
ImageBuffers == {SubSeq(f, 1, n) : f \in ImageFiles, n \in 0..14}

ImageContents ==
  {RawBuffer(b) : b \in ImageBuffers}
  \cup {BareBase64(b) : b \in ImageBuffers}
  \cup {DataUrl(m, b) : m \in {"image/png", "image/gif"}, b \in {PngBytes}}
  \cup {HttpUrl}

InitImage ==
  /\ InitCalls
  /\ customModelsLoaded = FALSE
  /\ models = BuiltinModels
  /\ apiKey = [p \in Providers |-> "sk-key"]
  /\ customFile = "absent"
  /\ mergeCount = 0
  /\ callsMade = 0
  /\ thinking = NoThinkingCall
  /\ formatting = NoFormatCall
  /\ \E f \in {"callAI-tiny.js", "tinyCallAI.js"}, content \in ImageContents :
        image = [NoImageCall EXCEPT !.file = f, !.input = content]

\* processImageContent(content), then processImageContent of what it returned
CallProcessImageContent ==
  /\ image.calls < MaxImageCalls
  /\ LET content == IF image.calls = 0 THEN image.input ELSE image.out
     IN image' = [image EXCEPT
          !.calls = @ + 1,
          !.out = IF image.file = "tinyCallAI.js" THEN tinyCallAI_processImageContent(content)
                  ELSE processImageContent(content)]
  /\ UNCHANGED <<callAIVars, request, thinking, formatting>>

\* detectImageFormat(buffer)
CallDetectImageFormat ==
  /\ image.mime = ""
  /\ image.input.scheme = "buffer"
  /\ image' = [image EXCEPT !.mime = detectImageFormat(image.input.bytes)]
  /\ UNCHANGED <<callAIVars, request, thinking, formatting>>

NextImage == CallProcessImageContent \/ CallDetectImageFormat

SpecImage == InitImage /\ [][NextImage]_vars

\* the sequence starts with the signature
StartsWith(bytes, sig) == Len(bytes) >= Len(sig) /\ SubSeq(bytes, 1, Len(sig)) = sig

\* the MIME type the four signatures call for
SniffedMime(bytes) ==
  IF StartsWith(bytes, <<255, 216, 255>>) THEN "image/jpeg"
  ELSE IF StartsWith(bytes, <<137, 80, 78, 71>>) THEN "image/png"
  ELSE IF StartsWith(bytes, <<82, 73, 70, 70>>) /\ Len(bytes) >= 12
          /\ SubSeq(bytes, 9, 12) = <<87, 69, 66, 80>> THEN "image/webp"
  ELSE IF StartsWith(bytes, <<71, 73, 70>>) THEN "image/gif"
  ELSE "image/jpeg"

\* C27: for raw binary, a bare base64 string, a data-URL and an http(s) URL
\* processImageContent returns a data-URL or an http(s) URL: a data-URL or
\* http(s) URL unchanged, anything else as data:<sniffed mime>;base64,<payload>;
\* applied to its own result it returns that result unchanged.
C27_ImageContentCanonical ==
  image.calls >= 1 =>
     /\ image.out.scheme \in {"data", "http"}
     /\ image.input.scheme \in {"data", "http"} => image.out = image.input
     /\ image.input.scheme \in {"buffer", "bare"} =>
           image.out = DataUrl(detectImageFormat(image.input.bytes), image.input.bytes)

\* C27, the part that holds for callAI-tiny.js: strings come back as a
\* data-URL or an http(s) URL, bare base64 wrapped with its sniffed mime
C27_StringContentCanonical ==
  (image.calls >= 1 /\ image.file = "callAI-tiny.js"
     /\ image.input.scheme \in {"bare", "data", "http"}) =>
     /\ image.out.scheme \in {"data", "http"}
     /\ image.input.scheme \in {"data", "http"} => image.out = image.input
     /\ image.input.scheme = "bare" =>
           image.out = DataUrl(detectImageFormat(image.input.bytes), image.input.bytes)

\* a bare base64 PNG was wrapped as data:image/png and the second call
\* returned the data-URL unchanged
C27_StringWitness ==
  /\ image.file = "callAI-tiny.js"
  /\ image.input = BareBase64(<<137, 80, 78, 71, 13, 10, 26, 10>>)
  /\ image.calls = 2
  /\ image.out = DataUrl("image/png", <<137, 80, 78, 71, 13, 10, 26, 10>>)

\* C28: detectImageFormat gives image/jpeg for a sequence starting FF D8 FF,
\* image/png for 89 50 4E 47, image/webp for 'RIFF' at offset 0 with 'WEBP'
\* at offsets 8..11, image/gif for 47 49 46, and image/jpeg for every other
\* sequence, empty and short ones included; the result depends only on the
\* first 12 bytes.
C28_SniffedBySignature ==
  image.mime # "" =>
     /\ image.mime = SniffedMime(image.input.bytes)
     /\ Len(image.input.bytes) > 12 =>
           image.mime = detectImageFormat(SubSeq(image.input.bytes, 1, 12))

\* C28, the sequences for which it holds: those of 13 bytes and more
C28_SniffedWhenLongEnough ==
  (image.mime # "" /\ Len(image.input.bytes) > 12) =>
     image.mime = SniffedMime(image.input.bytes)

\* a 14-byte WebP file was sniffed as image/webp
C28_LongWitness ==
  /\ image.mime = "image/webp"
  /\ Len(image.input.bytes) = 14

\* the aliases of the provider's table with the wire name of this alias
SameWireAliases(prov, alias) ==
  {a \in DOMAIN models[prov] : models[prov][a].name = models[prov][alias].name}

\* C29: the vision gate gives one verdict for all aliases of a provider that
\* map to the same wire name: when an image request is refused at the gate,
\* no other alias of that wire model passes it.
C29_GateAgreesOnWireModel ==
  \A c \in Calls :
     (/\ pc[c] = "failed"
      /\ provider[c] \in Providers
      /\ model[c] \in DOMAIN models[provider[c]]
      /\ error[c].message = VisionMessage(model[c]))
     => \A a \in SameWireAliases(provider[c], model[c]) : ~supportsVision(provider[c], a)

\* the tables with every entry of a valid _models.js assigned
FullyMerged ==
  [p \in Providers |->
     [a \in DOMAIN BuiltinModels[p] \cup (IF p \in DOMAIN CustomModels
                                            THEN DOMAIN CustomModels[p] ELSE {}) |->
        IF p \in DOMAIN CustomModels /\ a \in DOMAIN CustomModels[p]
          THEN CustomModels[p][a] ELSE BuiltinModels[p][a]]]

\* the invocation has got to config.models[model] (line 658) or beyond
AtModelLookup(c) ==
  \/ pc[c] \in {"transport", "returned"}
  \/ /\ pc[c] = "failed" /\ PastLoad(c) /\ ~BlockedByVisionGate(c)
     /\ provider[c] \in Providers /\ apiKey[provider[c]] # ""

MergedBeforeLookup ==
  \A c \in Calls : (customFile = "valid" /\ AtModelLookup(c)) => models = FullyMerged

====
